---- MODULE Spec2Model ----
(***************************************************************************)
(* David Lynch Collection Dashboard: the data-derivation and filtering     *)
(* core of src/data_processing.py (load_data, detect_category,             *)
(* get_filtered_data, calculate_summary_stats), the top-N ranking of        *)
(* src/visualizations.py, the script run of src/main_dashboard.py with the  *)
(* sidebar of src/ui_components.py, and the filtered frame of               *)
(* src/lynch_dashboard.py.                                                  *)
(*                                                                         *)
(* Text is modelled as a sequence of one-character strings, so that        *)
(* replace, strip, split, lower, int() and substring search are computed   *)
(* character by character as Python computes them.                         *)
(***************************************************************************)
EXTENDS Integers, Sequences, FiniteSets, TLC

VARIABLES
    pc,                  \* position of the script run
    data,                \* json.load(f): the array of raw records
    sold_prices, estimated_low, estimated_high, estimated_avg,
    estimated_price_raw, titles, urls, images,   \* load_data's column lists
    df,                  \* the table load_data returned (empty until then)
    selected_categories, keyword, price_filter,  \* arguments of get_filtered_data
    filtered_df,         \* the view get_filtered_data returned (empty until then)
    stats,               \* the dict calculate_summary_stats returned, or NoStats
    n_items, ascending,  \* arguments of the top-N ranking
    top_items,           \* the frame the ranking returned (empty until then)
    session_state,       \* st.session_state: the keys set so far, with their values
    shown,               \* what the script run has rendered so far
    aliased,             \* filtered_df is the object df, not a frame of its own
    key_identity,        \* the Streamlit release identifies a keyed widget by its key alone
    text_states,         \* the texts of the search boxes, by widget identity
    checkbox_states,     \* the states of the category checkboxes, by widget identity
    slider_state,        \* the range of the price slider, or None before its first call
    event,               \* the button whose click started this run, or "none"
    manifest,            \* the download script: the list of the downloaded items
    attempts,            \* the download script: the items passed to driver.get, with the result
    dumps,               \* the download script: what json.dump wrote, write after write
    load_cache,          \* @st.cache_data of load_data: the table, once one was returned
    filter_cache,        \* @st.cache_data of get_filtered_data: the frames by argument key
    stats_cache          \* @st.cache_data of calculate_summary_stats: the dicts by frame

lists == <<sold_prices, estimated_low, estimated_high, estimated_avg,
           estimated_price_raw, titles, urls, images>>
filterArgs == <<selected_categories, keyword, price_filter>>
ranking == <<n_items, ascending, top_items>>
widgets == <<key_identity, text_states, checkbox_states, slider_state, event>>
app == <<session_state, shown, aliased, widgets>>
download == <<manifest, attempts, dumps>>
caches == <<load_cache, filter_cache, stats_cache>>
vars == <<pc, data, lists, df, filterArgs, filtered_df, stats, ranking, app, download,
          caches>>

-----------------------------------------------------------------------------
(* Bounds of the model *)

MaxRecords == 3        \* records in the source array (pipeline)
MaxStrLen == 3         \* length of the exhaustively enumerated price strings
MaxTitleTokens == 2    \* tokens concatenated into an enumerated title
MaxClears == 2         \* clicks on the search "Clear" button in one session
MaxCached == 3         \* filter specs called in one session of cached calls

-----------------------------------------------------------------------------
(* Python text primitives *)

Digits == {"0", "1", "2", "3", "4", "5", "6", "7", "8", "9"}

DigitVal(c) ==
    CASE c = "0" -> 0 [] c = "1" -> 1 [] c = "2" -> 2 [] c = "3" -> 3
      [] c = "4" -> 4 [] c = "5" -> 5 [] c = "6" -> 6 [] c = "7" -> 7
      [] c = "8" -> 8 [] c = "9" -> 9

\* the characters str.strip() and int() treat as whitespace
Whitespace == {" "}

\* s.replace(c, "") for a one-character c
Remove(s, c) == SelectSeq(s, LAMBDA x : x # c)

RECURSIVE LStrip(_)
LStrip(s) == IF s # <<>> /\ Head(s) \in Whitespace THEN LStrip(Tail(s)) ELSE s

RECURSIVE RStrip(_)
RStrip(s) ==
    IF s # <<>> /\ s[Len(s)] \in Whitespace
    THEN RStrip(SubSeq(s, 1, Len(s) - 1)) ELSE s

\* s.strip()
Strip(s) == RStrip(LStrip(s))

\* position of the first occurrence of c in s, 0 if none
RECURSIVE Find(_, _)
Find(s, c) ==
    IF s = <<>> THEN 0
    ELSE IF Head(s) = c THEN 1
    ELSE LET r == Find(Tail(s), c) IN IF r = 0 THEN 0 ELSE r + 1

\* s.split(c): the list of the pieces between the occurrences of c
RECURSIVE Split(_, _)
Split(s, c) ==
    LET p == Find(s, c) IN
    IF p = 0 THEN <<s>>
    ELSE <<SubSeq(s, 1, p - 1)>> \o Split(SubSeq(s, p + 1, Len(s)), c)

\* value of a string of decimal digits
RECURSIVE DecVal(_)
DecVal(d) ==
    IF d = <<>> THEN 0
    ELSE 10 * DecVal(SubSeq(d, 1, Len(d) - 1)) + DigitVal(d[Len(d)])

\* int(s) on a str: surrounding whitespace is dropped, one sign is accepted,
\* single underscores may separate digits. ok = FALSE is ValueError.
PyInt(s) ==
    LET t == Strip(s)
        signed == t # <<>> /\ t[1] \in {"+", "-"}
        body == IF signed THEN Tail(t) ELSE t
        n == Len(body)
        wellformed ==
            /\ n > 0
            /\ \A k \in 1..n : body[k] \in Digits \cup {"_"}
            /\ body[1] # "_" /\ body[n] # "_"
            /\ \A k \in 1..(n - 1) : ~(body[k] = "_" /\ body[k + 1] = "_")
        mag == DecVal(SelectSeq(body, LAMBDA x : x \in Digits))
    IN  IF wellformed
        THEN [ok |-> TRUE, val |-> IF signed /\ t[1] = "-" THEN 0 - mag ELSE mag]
        ELSE [ok |-> FALSE, val |-> 0]

\* a float held exactly as a fraction num/den
Rat(n, d) == [num |-> n, den |-> d]

-----------------------------------------------------------------------------
(* detect_category *)

UpperAlpha == <<"A", "B", "C", "D", "E", "F", "G", "H", "I", "J", "K", "L", "M",
                "N", "O", "P", "Q", "R", "S", "T", "U", "V", "W", "X", "Y", "Z">>
LowerAlpha == <<"a", "b", "c", "d", "e", "f", "g", "h", "i", "j", "k", "l", "m",
                "n", "o", "p", "q", "r", "s", "t", "u", "v", "w", "x", "y", "z">>

LowerChar(c) ==
    IF \E k \in 1..Len(UpperAlpha) : UpperAlpha[k] = c
    THEN LowerAlpha[CHOOSE k \in 1..Len(UpperAlpha) : UpperAlpha[k] = c]
    ELSE c

\* s.lower()
Lower(s) == [k \in 1..Len(s) |-> LowerChar(s[k])]

\* sub in s
Contains(s, sub) ==
    \E p \in 0..(Len(s) - Len(sub)) : SubSeq(s, p + 1, p + Len(sub)) = sub

\* the dict literal, in insertion order
category_keywords == <<
    [label |-> "Scripts & Screenplays",
     keywords |-> << <<"s","c","r","i","p","t">>,
                     <<"s","c","r","e","e","n","p","l","a","y">> >>],
    [label |-> "Cameras & Camcorders",
     keywords |-> << <<"c","a","m","e","r","a">>,
                     <<"c","a","m","c","o","r","d","e","r">> >>],
    [label |-> "Lighting Equipment",
     keywords |-> << <<"l","i","g","h","t">>,
                     <<"l","i","g","h","t","i","n","g">> >>],
    [label |-> "Books & Reference",
     keywords |-> << <<"b","o","o","k">>,
                     <<"v","o","l","u","m","e">>,
                     <<"r","e","f","e","r","e","n","c","e">> >>],
    [label |-> "Posters & Prints",
     keywords |-> << <<"p","o","s","t","e","r">>,
                     <<"s","i","g","n","e","d"," ","p","o","s","t","e","r">> >>],
    [label |-> "Furniture",
     keywords |-> << <<"s","o","f","a">>,
                     <<"c","h","a","i","r">>,
                     <<"t","a","b","l","e">>,
                     <<"f","u","r","n","i","t","u","r","e">> >>],
    [label |-> "Coffee & Kitchen",
     keywords |-> << <<"m","u","g">>,
                     <<"c","u","p">>,
                     <<"c","o","f","f","e","e"," ","m","a","k","e","r">>,
                     <<"e","s","p","r","e","s","s","o">> >>],
    [label |-> "Instruments & Audio",
     keywords |-> << <<"g","u","i","t","a","r">>,
                     <<"b","a","s","s">>,
                     <<"k","e","y","b","o","a","r","d">>,
                     <<"d","r","u","m">>,
                     <<"m","i","c","r","o","p","h","o","n","e">>,
                     <<"a","u","d","i","o">>,
                     <<"s","p","e","a","k","e","r">> >>],
    [label |-> "Records & Music",
     keywords |-> << <<"r","e","c","o","r","d">>,
                     <<"a","l","b","u","m">>,
                     <<"v","i","n","y","l">> >>],
    [label |-> "Props & Memorabilia",
     keywords |-> << <<"p","r","o","p">>,
                     <<"m","e","m","o","r","a","b","i","l","i","a">>,
                     <<"p","r","o","d","u","c","t","i","o","n"," ","s","l","a","t","e">> >>]
    >>

\* any(keyword in title for keyword in keywords)
AnyKeyword(keywords, title) ==
    \E k \in 1..Len(keywords) : Contains(title, keywords[k])

\* variant: no default after the loop, the function falls off its end
RECURSIVE ScanCategoriesNoDefault(_, _)
ScanCategoriesNoDefault(title, c) ==
    IF c > Len(category_keywords) THEN "None"
    ELSE IF AnyKeyword(category_keywords[c].keywords, title)
         THEN category_keywords[c].label
         ELSE ScanCategoriesNoDefault(title, c + 1)

\* the for loop over category_keywords.items(), from entry c on
RECURSIVE ScanCategories(_, _)
ScanCategories(title, c) ==
    IF c > Len(category_keywords) THEN "Other"
    ELSE IF AnyKeyword(category_keywords[c].keywords, title)
         THEN category_keywords[c].label
         ELSE ScanCategories(title, c + 1)

\* variant: the title is scanned as written, not lowercased
detect_category_cased(title) == ScanCategories(title, 1)

detect_category(title) == ScanCategories(Lower(title), 1)

-----------------------------------------------------------------------------
(* load_data *)

\* variant: the thousands commas are left in the text
ParseSoldKeepCommas(text) == PyInt(Strip(Remove(text, "$")))

\* int(item["Sold Price"].replace("$", "").replace(",", "").strip())
ParseSold(text) == PyInt(Strip(Remove(Remove(text, "$"), ",")))

\* the estimate branch of the loop body; ok = FALSE is ValueError
EstimateFailed == [ok |-> FALSE, est_low |-> 0, est_high |-> 0, est_avg |-> Rat(0, 1)]

\* variant: the average taken with integer division
ParseEstimateFloor(text) ==
    LET est_range == Strip(Remove(Remove(text, "$"), ","))
        parts == Split(est_range, "-")
        lo == PyInt(Strip(parts[1]))
        hi == PyInt(Strip(parts[2]))
        v == PyInt(Strip(est_range))
    IN  IF Find(est_range, "-") # 0
        THEN IF Len(parts) = 2 /\ lo.ok /\ hi.ok
             THEN [ok |-> TRUE, est_low |-> lo.val, est_high |-> hi.val,
                   est_avg |-> Rat((lo.val + hi.val) \div 2, 1)]
             ELSE EstimateFailed
        ELSE IF v.ok
             THEN [ok |-> TRUE, est_low |-> v.val, est_high |-> v.val,
                   est_avg |-> Rat(v.val, 1)]
             ELSE EstimateFailed

ParseEstimate(text) ==
    LET est_range == Strip(Remove(Remove(text, "$"), ",")) IN
    IF Find(est_range, "-") # 0
    THEN LET parts == Split(est_range, "-") IN
         IF Len(parts) # 2 THEN EstimateFailed   \* unpacking into two names
         ELSE LET lo == PyInt(Strip(parts[1]))
                  hi == PyInt(Strip(parts[2]))
              IN  IF lo.ok /\ hi.ok
                  THEN [ok |-> TRUE, est_low |-> lo.val, est_high |-> hi.val,
                        est_avg |-> Rat(lo.val + hi.val, 2)]
                  ELSE EstimateFailed
    ELSE LET v == PyInt(Strip(est_range)) IN
         IF v.ok
         THEN [ok |-> TRUE, est_low |-> v.val, est_high |-> v.val,
               est_avg |-> Rat(v.val, 1)]
         ELSE EstimateFailed

\* item[key] raises KeyError when the record lacks the key
Has(item, key) == key \in DOMAIN item

\* the statements of the loop body that parse (before the first append)
ParsesOk(item) ==
    /\ Has(item, "Sold Price") /\ ParseSold(item["Sold Price"]).ok
    /\ Has(item, "Estimated Price") /\ ParseEstimate(item["Estimated Price"]).ok

\* np.log10(x) to its integer part; 0 gives -inf and a negative x gives nan
RECURSIVE Log10Floor(_)
Log10Floor(x) == IF x < 10 THEN 0 ELSE 1 + Log10Floor(x \div 10)

Log10(x) ==
    IF x = 0 THEN "-inf" ELSE IF x < 0 THEN "nan" ELSE ToString(Log10Floor(x))

\* variant: the URL and Image columns built from each other's list
RowSwapped(k) ==
    [index |-> k - 1,
     Title |-> titles[k],
     SoldPrice |-> sold_prices[k],
     EstimatedLow |-> estimated_low[k],
     EstimatedHigh |-> estimated_high[k],
     EstimateAvg |-> estimated_avg[k],
     EstimatedPrice |-> estimated_price_raw[k],
     URL |-> images[k],
     Image |-> urls[k],
     Category |-> detect_category(titles[k]),
     LogSoldPrice |-> Log10(sold_prices[k] + 1)]

\* row k of pd.DataFrame({...}) with the Category and Log Sold Price columns;
\* index is the row's label in the RangeIndex
Row(k) ==
    [index |-> k - 1,
     Title |-> titles[k],
     SoldPrice |-> sold_prices[k],
     EstimatedLow |-> estimated_low[k],
     EstimatedHigh |-> estimated_high[k],
     EstimateAvg |-> estimated_avg[k],
     EstimatedPrice |-> estimated_price_raw[k],
     URL |-> urls[k],
     Image |-> images[k],
     Category |-> detect_category(titles[k]),
     LogSoldPrice |-> Log10(sold_prices[k] + 1)]

\* one iteration of "for item in data"; images is the list appended last
NextItem == Len(images) + 1

LoadItemOf(item) ==
    IF ~ParsesOk(item)
    THEN /\ pc' = "load_raised"
         /\ UNCHANGED lists
    ELSE LET est == ParseEstimate(item["Estimated Price"])
             t == Has(item, "Title")
             u == t /\ Has(item, "Item URL")
             g == u /\ Has(item, "Item Image")
         IN  /\ sold_prices' = Append(sold_prices, ParseSold(item["Sold Price"]).val)
             /\ estimated_low' = Append(estimated_low, est.est_low)
             /\ estimated_high' = Append(estimated_high, est.est_high)
             /\ estimated_avg' = Append(estimated_avg, est.est_avg)
             /\ estimated_price_raw' = Append(estimated_price_raw, item["Estimated Price"])
             /\ titles' = IF t THEN Append(titles, item["Title"]) ELSE titles
             /\ urls' = IF u THEN Append(urls, item["Item URL"]) ELSE urls
             /\ images' = IF g THEN Append(images, item["Item Image"]) ELSE images
             /\ pc' = IF g THEN "load_data" ELSE "load_raised"

LoadItem ==
    /\ pc = "load_data"
    /\ NextItem <= Len(data)
    /\ LoadItemOf(data[NextItem])
    /\ UNCHANGED <<caches, download, data, df, filterArgs, filtered_df, stats, ranking, app>>

\* variant: a record that raises ends the loop and the rows before it are returned
LoadReturnPartial ==
    /\ \/ pc = "load_data" /\ NextItem > Len(data)
       \/ pc = "load_raised"
    /\ df' = [k \in 1..Len(images) |-> Row(k)]
    /\ load_cache' = [key \in {"load_data"} |-> df']
    /\ pc' = "loaded"
    /\ UNCHANGED <<filter_cache, stats_cache, download, data, lists, filterArgs,
                   filtered_df, stats, ranking, app>>

\* after the loop: build the DataFrame, add the two derived columns, return;
\* @st.cache_data keeps the returned table
LoadReturn ==
    /\ pc = "load_data"
    /\ NextItem > Len(data)
    /\ df' = [k \in 1..Len(titles) |-> Row(k)]
    /\ load_cache' = [key \in {"load_data"} |-> df']
    /\ pc' = "loaded"
    /\ UNCHANGED <<filter_cache, stats_cache, download, data, lists, filterArgs,
                   filtered_df, stats, ranking, app>>

-----------------------------------------------------------------------------
(* get_filtered_data *)

\* None; like the empty tuple it is falsy in "if price_filter:"
None == <<>>

\* the labels in the order sorted() gives them
LabelOrder == <<"Books & Reference", "Cameras & Camcorders", "Coffee & Kitchen",
                "Furniture", "Instruments & Audio", "Lighting Equipment", "Other",
                "Posters & Prints", "Props & Memorabilia", "Records & Music",
                "Scripts & Screenplays">>

Rank(label) == CHOOSE k \in 1..Len(LabelOrder) : LabelOrder[k] = label

RECURSIVE Insert(_, _)
Insert(sorted, x) ==
    IF sorted = <<>> THEN <<x>>
    ELSE IF Rank(x) < Rank(Head(sorted)) THEN <<x>> \o sorted
    ELSE <<Head(sorted)>> \o Insert(Tail(sorted), x)

\* tuple(sorted(selected_categories))
RECURSIVE Sorted(_)
Sorted(list) ==
    IF list = <<>> THEN <<>>
    ELSE Insert(Sorted(SubSeq(list, 1, Len(list) - 1)), list[Len(list)])

\* the rows of a frame; the elements of a list
Rows(d) == {d[k] : k \in 1..Len(d)}
Elements(cats) == {cats[k] : k \in 1..Len(cats)}

\* Series.isin(values)
IsIn(x, values) == \E k \in 1..Len(values) : values[k] = x

\* re.compile(pat, re.IGNORECASE) fails on an unbalanced parenthesis
RegexError(pat) == Find(pat, "(") # 0

\* regex.search(text) for a pattern of literal characters and ".", which
\* stands for any character; letters match in either case
RegexSearch(pat, text) ==
    \E p \in 0..(Len(text) - Len(pat)) :
        \A j \in 1..Len(pat) :
            \/ pat[j] = "."
            \/ LowerChar(pat[j]) = LowerChar(text[p + j])

\* Series.str.contains(pat, case=False, na=False)
StrContains(text, pat) == RegexSearch(pat, text)

\* df[mask], the rows the mask keeps in the order of df, is SelectSeq

\* variant: an empty category list read as no category filter
FilterByCategoryOrAll(d, cats) ==
    LET InCats(r) == IsIn(r.Category, Sorted(cats)) IN
    IF cats # <<>> THEN SelectSeq(d, InCats) ELSE d

FilterByCategory(d, cats) ==
    LET InCats(r) == IsIn(r.Category, Sorted(cats)) IN SelectSeq(d, InCats)

FilterByKeyword(d, kw) ==
    LET Hit(r) == StrContains(r.Title, kw) IN
    IF kw # <<>> THEN SelectSeq(d, Hit) ELSE d

\* variant: the upper bound of the price range taken as exclusive
FilterByPriceExclusive(d, pf) ==
    LET InRange(r) == r.SoldPrice >= pf[1] /\ r.SoldPrice < pf[2] IN
    IF pf # <<>> THEN SelectSeq(d, InRange) ELSE d

\* variant: both bounds of the price range taken as exclusive
FilterByPriceStrict(d, pf) ==
    LET InRange(r) == r.SoldPrice > pf[1] /\ r.SoldPrice < pf[2] IN
    IF pf # <<>> THEN SelectSeq(d, InRange) ELSE d

\* variant: the bounds of the price range taken as offsets from the
\* cheapest row of the frame
FilterByPriceRelative(d, pf) ==
    LET low == CHOOSE m \in {d[k].SoldPrice : k \in 1..Len(d)} :
                   \A k \in 1..Len(d) : m <= d[k].SoldPrice
        InRange(r) == r.SoldPrice >= low + pf[1] /\ r.SoldPrice <= low + pf[2]
    IN  IF pf # <<>> /\ d # <<>> THEN SelectSeq(d, InRange) ELSE d

FilterByPrice(d, pf) ==
    LET InRange(r) == r.SoldPrice >= pf[1] /\ r.SoldPrice <= pf[2] IN
    IF pf # <<>> THEN SelectSeq(d, InRange) ELSE d

get_filtered_data(d, cats, kw, pf) ==
    FilterByPrice(FilterByKeyword(FilterByCategory(d, cats), kw), pf)

-----------------------------------------------------------------------------
(* calculate_summary_stats *)

NoItem == [none |-> TRUE]       \* the value None of most_expensive and cheapest
NoStats == [none |-> TRUE]      \* no dict returned yet
StatsRaised == [raised |-> "ValueError"]

RECURSIVE SumSold(_)
SumSold(d) == IF d = <<>> THEN 0 ELSE Head(d).SoldPrice + SumSold(Tail(d))

\* variant: the mean taken with floor division
MeanSoldFloor(d) == Rat(SumSold(d) \div Len(d), 1)

\* df["Sold Price"].mean(), as the exact fraction sum / count
MeanSold(d) == Rat(SumSold(d), Len(d))

Prices(d) == {d[k].SoldPrice : k \in 1..Len(d)}
MaxSold(d) == CHOOSE m \in Prices(d) : \A x \in Prices(d) : x <= m
MinSold(d) == CHOOSE m \in Prices(d) : \A x \in Prices(d) : m <= x

\* variant: the label of the last row holding the extreme
LastWith(d, price) ==
    d[CHOOSE k \in 1..Len(d) :
        /\ d[k].SoldPrice = price
        /\ \A j \in (k + 1)..Len(d) : d[j].SoldPrice # price].index

\* Series.idxmax() / idxmin(): the label of the first row holding the extreme
FirstWith(d, price) ==
    d[CHOOSE k \in 1..Len(d) :
        /\ d[k].SoldPrice = price
        /\ \A j \in 1..(k - 1) : d[j].SoldPrice # price].index
IdxMax(d) == FirstWith(d, MaxSold(d))
IdxMin(d) == FirstWith(d, MinSold(d))

\* df.loc[label]
Loc(d, label) == d[CHOOSE k \in 1..Len(d) : d[k].index = label]

CountOf(d, c) == Cardinality({k \in 1..Len(d) : d[k].Category = c})

\* value_counts().idxmax(): value_counts sorts the counts with an unstable
\* sort, so among categories of equal maximal count any may come first
MostCommon(d) ==
    {c \in {d[k].Category : k \in 1..Len(d)} :
        \A k \in 1..Len(d) : CountOf(d, d[k].Category) <= CountOf(d, c)}

EmptyStats ==
    [total_items |-> 0, total_value |-> 0, average_price |-> Rat(0, 1),
     min_price |-> 0, max_price |-> 0,
     most_expensive |-> NoItem, cheapest |-> NoItem,
     most_common_category |-> "N/A"]

\* the dict built from the frame; idxmax of an empty Series raises ValueError
SummaryStats(d) ==
    IF d = <<>> THEN {StatsRaised}
    ELSE {[total_items |-> Len(d),
           total_value |-> SumSold(d),
           average_price |-> MeanSold(d),
           min_price |-> MinSold(d),
           max_price |-> MaxSold(d),
           most_expensive |-> Loc(d, IdxMax(d)),
           cheapest |-> Loc(d, IdxMin(d)),
           most_common_category |-> c] : c \in MostCommon(d)}

\* variant: the empty frame is not tested for
calculate_summary_stats_unguarded(d) == SummaryStats(d)

\* the set of dicts a call can return (one, but for ties of the modal category)
calculate_summary_stats(d) ==
    IF d = <<>> THEN {EmptyStats} ELSE SummaryStats(d)

-----------------------------------------------------------------------------
(* The top-N ranking of create_horizontal_bar_chart, create_dumbbell_chart  *)
(* and show_item_gallery: nlargest / nsmallest, then sort_values            *)

\* row i of d comes before row j in the ranking: its price is more extreme,
\* or the prices are equal and it occurs first (keep="first")
Better(d, i, j, asc) ==
    \/ IF asc THEN d[i].SoldPrice < d[j].SoldPrice
              ELSE d[i].SoldPrice > d[j].SoldPrice
    \/ d[i].SoldPrice = d[j].SoldPrice /\ i < j

\* the position of the row of d that takes place r of the ranking
Placed(d, r, asc) ==
    CHOOSE i \in 1..Len(d) :
        Cardinality({j \in 1..Len(d) : Better(d, j, i, asc)}) = r - 1

\* the frames an ordering of d by Sold Price can be: sort_values sorts with
\* its default kind "quicksort", which is not stable, so rows of equal price
\* come in an order the build decides
SortValues(d, asc) ==
    LET Perms == {p \in [1..Len(d) -> 1..Len(d)] :
                     \A i, j \in 1..Len(d) : i # j => p[i] # p[j]}
        Ordered(p) == \A k \in 1..(Len(d) - 1) :
                          IF asc THEN d[p[k]].SoldPrice <= d[p[k + 1]].SoldPrice
                                 ELSE d[p[k]].SoldPrice >= d[p[k + 1]].SoldPrice
    IN  {[k \in 1..Len(d) |-> d[p[k]]] : p \in {q \in Perms : Ordered(q)}}

\* df.nsmallest(n, "Sold Price") / df.nlargest(n, "Sold Price"): when n
\* reaches the length the whole column is ordered by sort_values; else the n
\* most extreme rows, a tie at the cut kept by first occurrence
SelectN(d, n, asc) ==
    IF n >= Len(d) THEN SortValues(d, asc)
    ELSE {[r \in 1..n |-> d[Placed(d, r, asc)]]}

\* the frames top_items can be
TopN(d, n, asc) == UNION {SortValues(t, asc) : t \in SelectN(d, n, asc)}

\* create_horizontal_bar_chart(df, n_items, title, ascending) up to top_items
\* (ascending = False is also the ranking of the dumbbell chart and the gallery)
CreateHorizontalBarChartOf(n, asc) ==
    /\ pc = "loaded"
    /\ n_items' = n
    /\ ascending' = asc
    /\ top_items' \in TopN(df, n, asc)
    /\ pc' = "ranked"
    /\ UNCHANGED <<caches, download, data, lists, df, filterArgs, filtered_df, stats, app>>

-----------------------------------------------------------------------------
(* The runs: load_data, then get_filtered_data and calculate_summary_stats *)

GetFilteredDataOf(cats, kw, pf) ==
    /\ selected_categories' = cats
    /\ keyword' = kw
    /\ price_filter' = pf
    /\ IF kw # <<>> /\ RegexError(kw)
       THEN pc' = "filter_raised" /\ UNCHANGED filtered_df
       ELSE pc' = "filtered" /\ filtered_df' = get_filtered_data(df, cats, kw, pf)

CalculateSummaryStats ==
    /\ pc = "filtered"
    /\ \E r \in calculate_summary_stats(filtered_df) :
          /\ stats' = r
          /\ pc' = IF r = StatsRaised THEN "stats_raised" ELSE "stats"
    /\ UNCHANGED <<caches, download, data, lists, df, filterArgs, filtered_df, ranking, app>>

-----------------------------------------------------------------------------
(* The script run of main_dashboard.py: create_sidebar_filters, the filter   *)
(* application, the rendering of the tabs; st.session_state outlives a run   *)

\* st.session_state.key = val
Put(ss, key, val) ==
    [k \in DOMAIN ss \cup {key} |-> IF k = key THEN val ELSE ss[k]]

\* st.session_state.get(key, default), getattr(st.session_state, key, default)
Get(ss, key, default) == IF key \in DOMAIN ss THEN ss[key] ELSE default

\* sorted(df["Category"].unique())
categories(d) ==
    LET Present(c) == \E k \in 1..Len(d) : d[k].Category = c
    IN  SelectSeq(LabelOrder, Present)

\* the ranges the slider can return: min_value <= low <= high <= max_value,
\* at the prices of the table
PriceRanges(d) ==
    {r \in Prices(d) \X Prices(d) : r[1] <= r[2]}

\* variant: the key price_filter is assigned only when a range is set
StorePriceFilterIfSet(ss, price_range, full) ==
    IF price_range # full THEN Put(ss, "price_filter", price_range) ELSE ss

\* variant: the range of the slider is stored whatever it is
StorePriceFilterAlways(ss, price_range, full) ==
    Put(ss, "price_filter", price_range)

\* "if price_range != (min_price, max_price): ... else: ... = None"
StorePriceFilter(ss, price_range, full) ==
    Put(ss, "price_filter", IF price_range # full THEN price_range ELSE None)

\* the "Filters active" notice, read before price_filter is stored
FiltersActive(ss, kw, d) ==
    LET checked == {c \in DOMAIN ss["selected_categories"] :
                        ss["selected_categories"][c]}
    IN  \/ Get(ss, "price_filter", None) # None
        \/ kw # <<>>
        \/ Cardinality(checked) < Len(categories(d))

\* A widget call returns the state stored under the identity of the widget,
\* and its default value when no state is stored under it
Stored(states, id, default) ==
    IF id \in DOMAIN states THEN states[id] ELSE default

\* variant: the key of the search box does not carry the counter
TextIdFixedKey(ss) ==
    <<0, IF key_identity THEN <<>> ELSE ss["search_keyword"]>>

\* the identity of st.text_input(..., value=search_keyword,
\* key=f"search_input_{search_clear_counter}"): the key, and with it the
\* value parameter unless the key alone identifies the widget
TextId(ss) ==
    <<Get(ss, "search_clear_counter", 0),
      IF key_identity THEN <<>> ELSE ss["search_keyword"]>>

\* the identity of st.checkbox(..., value=value, key=f"category_{category}")
CheckboxId(category, value) ==
    <<category, IF key_identity THEN TRUE ELSE value>>

\* the button handlers end in st.rerun(): the run stops before the widgets
\* below the button are called, no widget state is dropped, and the script
\* starts again from its top
StRerun(ss, texts, after) ==
    /\ session_state' = ss
    /\ text_states' = texts
    /\ event' = after
    /\ pc' = "loaded"
    /\ UNCHANGED <<selected_categories, keyword, shown, checkbox_states,
                   slider_state>>

\* create_sidebar_filters(df): the search box and its Clear button, the
\* Select All and Clear All buttons, the category checkboxes, the price
\* slider, the "Filters active" notice, the stored price filter. On an empty
\* table min() is NaN and int() raises. When the run is not stopped the
\* states of the widgets it did not call are dropped.
CreateSidebarFilters ==
    /\ pc = "loaded"
    /\ LET initialised == IF "search_keyword" \in DOMAIN session_state
                          THEN session_state
                          ELSE Put(session_state, "search_keyword", <<>>)
           typed == Stored(text_states, TextId(initialised),
                           initialised["search_keyword"])
           texts == Put(text_states, TextId(initialised), typed)
           cleared == Put(Put(initialised, "search_keyword", <<>>),
                          "search_clear_counter",
                          Get(initialised, "search_clear_counter", 0) + 1)
           searched == Put(initialised, "search_keyword", typed)
           present == Elements(categories(df))
           listed == IF "selected_categories" \in DOMAIN searched
                     THEN searched
                     ELSE Put(searched, "selected_categories",
                              [c \in present |-> TRUE])
           before == listed["selected_categories"]
           checked == [c \in present |->
                          Stored(checkbox_states, CheckboxId(c, before[c]), before[c])]
           ticked == Put(listed, "selected_categories", checked)
           IsChecked(c) == checked[c]
       IN  CASE event = "clear" ->
                    StRerun(cleared, texts, "after_clear")
             [] event = "select_all" ->
                    StRerun(Put(listed, "selected_categories",
                                [c \in present |-> TRUE]),
                            texts, "after_select_all")
             [] event = "clear_all" ->
                    StRerun(Put(listed, "selected_categories",
                                [c \in present |-> FALSE]),
                            texts, "after_clear_all")
             [] OTHER ->
                    IF df = <<>>
                    THEN /\ session_state' = ticked
                         /\ pc' = "sidebar_raised"
                         /\ shown' = {}
                         /\ text_states' = texts
                         /\ UNCHANGED <<selected_categories, keyword,
                                        checkbox_states, slider_state, event>>
                    ELSE LET full == <<MinSold(df), MaxSold(df)>>
                             price_range == IF slider_state = None THEN full ELSE slider_state
                         IN  /\ session_state' = StorePriceFilter(ticked, price_range, full)
                             /\ selected_categories' = SelectSeq(categories(df), IsChecked)
                             /\ keyword' = typed
                             /\ shown' = IF FiltersActive(ticked, typed, df)
                                         THEN {"filters_active"} ELSE {}
                             /\ text_states' = [id \in {TextId(initialised)} |-> typed]
                             /\ checkbox_states' =
                                    [id \in {CheckboxId(c, before[c]) : c \in present}
                                        |-> checked[id[1]]]
                             /\ slider_state' = price_range
                             /\ pc' = "sidebar"
                             /\ UNCHANGED event
    /\ UNCHANGED <<caches, download, data, lists, df, price_filter, filtered_df, stats, ranking,
                   aliased, key_identity>>

\* main_dashboard.py: "if selected_categories or keyword or hasattr(...)" with
\* both branches; get_filtered_data returns a frame of its own, the else
\* branch binds filtered_df to df itself
ApplyFilters ==
    /\ pc = "sidebar"
    /\ IF selected_categories # <<>> \/ keyword # <<>>
             \/ "price_filter" \in DOMAIN session_state
       THEN /\ price_filter' = Get(session_state, "price_filter", None)
            /\ aliased' = FALSE
            /\ IF keyword # <<>> /\ RegexError(keyword)
               THEN pc' = "filter_raised" /\ UNCHANGED <<filtered_df, stats>>
               ELSE /\ filtered_df' = get_filtered_data(df, selected_categories,
                                          keyword, Get(session_state, "price_filter", None))
                    /\ \E r \in calculate_summary_stats(filtered_df') :
                          /\ stats' = r
                          /\ pc' = IF r = StatsRaised THEN "stats_raised" ELSE "applied"
       ELSE /\ filtered_df' = df
            /\ aliased' = TRUE
            /\ UNCHANGED price_filter
            /\ \E r \in calculate_summary_stats(df) :
                  /\ stats' = r
                  /\ pc' = IF r = StatsRaised THEN "stats_raised" ELSE "applied"
    /\ UNCHANGED <<caches, download, data, lists, df, selected_categories, keyword, ranking,
                   session_state, shown, widgets>>

\* variant: the tabs render without testing the view
Unguarded(d) == TRUE

\* "if not filtered_df.empty:" of the four data tabs
NotEmpty(d) == d # <<>>

\* what needs at least one row: the summary with its extreme items, the
\* table, the charts, the over-estimate percentage, the top category, the
\* rankings and the gallery
RowConsumers ==
    {"summary_display", "data_table", "download_buttons", "treemap",
     "scatter_plot", "over_percentage", "top_category", "dumbbell_chart",
     "item_gallery", "bar_chart_expensive", "bar_chart_cheapest"}

\* display_filter_info(selected_categories, keyword, ...): what it shows
display_filter_info(cats, kw) ==
    IF Len(cats) < 10 \/ kw # <<>> THEN {"active_filters"} ELSE {}

\* the rest of the script: the filter information, the five tabs, the footer.
\* Inside the Insights tab len(over_estimate) / len(filtered_df) raises
\* ZeroDivisionError on a view without rows; top_items is the frame of the
\* last ranking, the cheapest items.
Render ==
    /\ pc = "applied"
    /\ LET info == IF filtered_df = <<>> THEN {"no_match_warning"}
                   ELSE display_filter_info(selected_categories, keyword)
           table == IF NotEmpty(filtered_df)
                    THEN {"summary_display", "data_table", "download_buttons"}
                    ELSE {"table_warning"}
           treemap == IF NotEmpty(filtered_df) THEN {"treemap"} ELSE {"treemap_warning"}
           scatter == IF NotEmpty(filtered_df) THEN {"scatter_plot"}
                      ELSE {"scatter_warning"}
           before == shown \cup info \cup table \cup treemap \cup scatter
       IN  IF NotEmpty(filtered_df)
           THEN IF filtered_df = <<>>
                THEN /\ shown' = before \cup {"over_percentage"}
                     /\ pc' = "render_raised"
                     /\ UNCHANGED ranking
                ELSE /\ shown' = before \cup {"over_percentage", "top_category",
                                     "dumbbell_chart", "item_gallery",
                                     "bar_chart_expensive", "bar_chart_cheapest",
                                     "about", "footer"}
                     /\ n_items' = 10
                     /\ ascending' = TRUE
                     /\ top_items' \in TopN(filtered_df, 10, TRUE)
                     /\ pc' = "done"
           ELSE /\ shown' = before \cup {"insights_warning", "about", "footer"}
                /\ pc' = "done"
                /\ UNCHANGED ranking
    /\ UNCHANGED <<caches, download, data, lists, df, filterArgs, filtered_df, stats,
                   session_state, aliased, widgets>>

\* the texts typed into the search box
AppKeywords == {<<>>, <<"s", "c", "r", "i", "p", "t">>, <<"(">>}

\* the widget events of the rendered page: a text typed into the search box,
\* a category checkbox toggled, the slider moved, a button clicked
TypeText(t) ==
    /\ \E id \in DOMAIN text_states : text_states[id] # t
    /\ text_states' = [id \in DOMAIN text_states |-> t]
    /\ event' = "none"
    /\ UNCHANGED <<checkbox_states, slider_state>>

ToggleCheckbox(c) ==
    /\ checkbox_states' = [id \in DOMAIN checkbox_states |->
                              IF id[1] = c THEN ~checkbox_states[id]
                              ELSE checkbox_states[id]]
    /\ event' = "none"
    /\ UNCHANGED <<text_states, slider_state>>

MoveSlider(r) ==
    /\ r # slider_state
    /\ slider_state' = r
    /\ event' = "none"
    /\ UNCHANGED <<text_states, checkbox_states>>

Click(button) ==
    /\ button = "clear" => Get(session_state, "search_clear_counter", 0) < MaxClears
    /\ event' = button
    /\ UNCHANGED <<text_states, checkbox_states, slider_state>>

\* a widget event: the script runs again from its top; load_data returns the
\* table it has cached, st.session_state and the widget states are kept
Rerun ==
    /\ pc = "done"
    /\ \/ \E t \in AppKeywords : TypeText(t)
       \/ \E c \in Elements(categories(df)) : ToggleCheckbox(c)
       \/ \E r \in PriceRanges(df) : MoveSlider(r)
       \/ \E button \in {"clear", "select_all", "clear_all"} : Click(button)
    /\ pc' = "loaded"
    /\ selected_categories' = <<>> /\ keyword' = <<>> /\ price_filter' = None
    /\ filtered_df' = <<>>
    /\ stats' = NoStats
    /\ n_items' = 0 /\ ascending' = FALSE /\ top_items' = <<>>
    /\ shown' = {}
    /\ aliased' = FALSE
    /\ df' = load_cache["load_data"]
    /\ UNCHANGED <<caches, download, data, lists, session_state, key_identity>>

-----------------------------------------------------------------------------
(* The script of lynch_dashboard.py: its table, its filters, the Log Sold   *)
(* Price column assigned on the filtered frame                              *)

\* the keyword lists of the if / elif chain, in the order of the chain
lynch_chain == <<
    [label |-> "Scripts & Screenplays",
     keywords |-> << <<"s", "c", "r", "i", "p", "t">>,
                     <<"s", "c", "r", "e", "e", "n", "p", "l", "a", "y">> >>],
    [label |-> "Cameras & Camcorders",
     keywords |-> << <<"c", "a", "m", "e", "r", "a">>,
                     <<"c", "a", "m", "c", "o", "r", "d", "e", "r">> >>],
    [label |-> "Lighting Equipment",
     keywords |-> << <<"l", "i", "g", "h", "t">>,
                     <<"l", "i", "g", "h", "t", "i", "n", "g">> >>],
    [label |-> "Books & Reference",
     keywords |-> << <<"b", "o", "o", "k">>,
                     <<"v", "o", "l", "u", "m", "e">>,
                     <<"r", "e", "f", "e", "r", "e", "n", "c", "e">> >>],
    [label |-> "Posters & Prints",
     keywords |-> << <<"p", "o", "s", "t", "e", "r">>,
                     <<"s", "i", "g", "n", "e", "d", " ", "p", "o", "s", "t", "e", "r">> >>],
    [label |-> "Furniture",
     keywords |-> << <<"s", "o", "f", "a">>,
                     <<"c", "h", "a", "i", "r">>,
                     <<"t", "a", "b", "l", "e">>,
                     <<"f", "u", "r", "n", "i", "t", "u", "r", "e">> >>],
    [label |-> "Coffee & Kitchen",
     keywords |-> << <<"m", "u", "g">>,
                     <<"c", "u", "p">>,
                     <<"c", "o", "f", "f", "e", "e", " ", "m", "a", "k", "e", "r">>,
                     <<"e", "s", "p", "r", "e", "s", "s", "o">> >>],
    [label |-> "Instruments & Audio",
     keywords |-> << <<"g", "u", "i", "t", "a", "r">>,
                     <<"b", "a", "s", "s">>,
                     <<"k", "e", "y", "b", "o", "a", "r", "d">>,
                     <<"d", "r", "u", "m">>,
                     <<"m", "i", "c", "r", "o", "p", "h", "o", "n", "e">>,
                     <<"a", "u", "d", "i", "o">>,
                     <<"s", "p", "e", "a", "k", "e", "r">> >>],
    [label |-> "Records & Music",
     keywords |-> << <<"r", "e", "c", "o", "r", "d">>,
                     <<"a", "l", "b", "u", "m">>,
                     <<"v", "i", "n", "y", "l">> >>],
    [label |-> "Props & Memorabilia",
     keywords |-> << <<"p", "r", "o", "p">>,
                     <<"m", "e", "m", "o", "r", "a", "b", "i", "l", "i", "a">>,
                     <<"p", "r", "o", "d", "u", "c", "t", "i", "o", "n", " ", "s", "l", "a", "t", "e">> >>]
    >>

\* variant: the last branch, from c on, with a keyword in the title wins
LynchChainLast(title, c) ==
    LET hits == {b \in c..Len(lynch_chain) : AnyKeyword(lynch_chain[b].keywords, title)}
    IN  IF hits = {} THEN "Other"
        ELSE lynch_chain[CHOOSE b \in hits : \A x \in hits : x <= b].label

\* the chain from branch c on; the final else returns "Other"
RECURSIVE LynchChain(_, _)
LynchChain(title, c) ==
    IF c > Len(lynch_chain) THEN "Other"
    ELSE IF AnyKeyword(lynch_chain[c].keywords, title)
         THEN lynch_chain[c].label
         ELSE LynchChain(title, c + 1)

\* detect_category of lynch_dashboard.py
lynch_detect_category(title) == LynchChain(Lower(title), 1)

\* the frame has no such column
NoColumn == "no column"

\* row k of the table of lynch_dashboard.py: the DataFrame of its load_data
\* and the Category column; it has no Log Sold Price column
LynchRow(k) ==
    [index |-> k - 1,
     Title |-> titles[k],
     SoldPrice |-> sold_prices[k],
     EstimatedLow |-> estimated_low[k],
     EstimatedHigh |-> estimated_high[k],
     EstimateAvg |-> estimated_avg[k],
     EstimatedPrice |-> estimated_price_raw[k],
     URL |-> urls[k],
     Image |-> images[k],
     Category |-> lynch_detect_category(titles[k]),
     LogSoldPrice |-> NoColumn]

\* load_data returns (its loop is the loop of data_processing.py) and the
\* Category column is added
LynchReturn ==
    /\ pc = "load_data"
    /\ NextItem > Len(data)
    /\ df' = [k \in 1..Len(titles) |-> LynchRow(k)]
    /\ pc' = "lynch_loaded"
    /\ UNCHANGED <<caches, download, data, lists, filterArgs, filtered_df, stats, ranking, app>>

\* variant: a mask that keeps every row gives the frame itself, not a copy
MaskIsViewWhenAll(d, kept) == kept = d

\* df[mask] with a boolean mask: the kept rows are copied into a new frame
MaskIsView(d, kept) == FALSE

\* frame["Log Sold Price"] = np.log10(frame["Sold Price"] + 1)
AssignLog(frame) ==
    [k \in 1..Len(frame) |->
        [frame[k] EXCEPT !.LogSoldPrice = Log10(frame[k].SoldPrice + 1)]]

\* the sidebar and the filters of lynch_dashboard.py, then the assignment of
\* the Log Sold Price column on filtered_df; a write to a frame that is the
\* object df is a write to df
LynchFilterOf(checked, typed) ==
    LET IsChecked(c) == checked[c]
        selected == SelectSeq(categories(df), IsChecked)
        by_category == FilterByCategory(df, selected)
        kept == FilterByKeyword(by_category, typed)
        view == /\ MaskIsView(df, by_category)
                /\ typed = <<>> \/ MaskIsView(by_category, kept)
    IN  /\ pc = "lynch_loaded"
        /\ session_state' = Put(session_state, "selected_categories", checked)
        /\ selected_categories' = selected
        /\ keyword' = typed
        /\ IF typed # <<>> /\ RegexError(typed)
           THEN /\ pc' = "lynch_raised"
                /\ UNCHANGED <<df, filtered_df, aliased>>
           ELSE /\ pc' = "lynch_filtered"
                /\ aliased' = view
                /\ filtered_df' = AssignLog(kept)
                /\ df' = IF view THEN AssignLog(kept) ELSE df
        /\ UNCHANGED <<caches, download, data, lists, price_filter, stats, ranking, shown, widgets>>

\* the summary block of the Data Table tab of lynch_dashboard.py: the
\* statistics are taken from filtered_df without a test for rows (only
\* most_common_category has one), then the markdown summary is shown
LynchSummary ==
    /\ pc = "lynch_filtered"
    /\ \E r \in SummaryStats(filtered_df) :
          /\ stats' = r
          /\ IF r = StatsRaised
             THEN pc' = "lynch_stats_raised" /\ UNCHANGED shown
             ELSE pc' = "lynch_stats" /\ shown' = shown \cup {"summary_block"}
    /\ UNCHANGED <<caches, download, data, lists, df, filterArgs, filtered_df, ranking,
                   session_state, aliased, widgets>>

-----------------------------------------------------------------------------
(* Inputs *)

\* a raw record of the source array
Item(title, sold, est, url, image) ==
    [x \in {"Title", "Sold Price", "Estimated Price", "Item URL", "Item Image"} |->
        CASE x = "Title" -> title
          [] x = "Sold Price" -> sold
          [] x = "Estimated Price" -> est
          [] x = "Item URL" -> url
          [] x = "Item Image" -> image]

\* the record with one more, unknown, field
WithExtra(item) ==
    [x \in DOMAIN item \cup {"Lot"} |-> IF x = "Lot" THEN <<"1", "7">> ELSE item[x]]

\* the record without a field
Without(item, key) == [x \in DOMAIN item \ {key} |-> item[x]]

ItemScript == Item(<<"S", "i", "g", "n", "e", "d", " ", "S", "c", "r", "i", "p", "t">>,
         <<"$", "1", ",", "0", "0", "0">>,
         <<"$", "8", "0", "0", " ", "-", " ", "$", "1", ",", "2", "0", "0">>,
         <<"u", "1">>,
         <<"i", "1">>)
ItemMugPlain == Item(<<"C", "o", "f", "f", "e", "e", " ", "M", "u", "g">>,
         <<"$", "5", "0">>,
         <<"$", "5", "0">>,
         <<"u", "2">>,
         <<"i", "2">>)

ItemMug == WithExtra(ItemMugPlain)

ItemLamp == Item(<<"L", "a", "m", "p">>,
         <<"5", "0">>,
         <<"$", "2", "0", "-", "$", "1", "0">>,
         <<"u", "3">>,
         <<"i", "3">>)
ItemBad == Item(<<"C", "a", "m", "e", "r", "a">>,
         <<"N", "/", "A">>,
         <<"$", "5">>,
         <<"u", "4">>,
         <<"i", "4">>)
ItemNoUrl == Without(Item(<<"C", "a", "m", "e", "r", "a">>,
         <<"$", "7">>,
         <<"$", "5", " ", "-", " ", "$", "9">>,
         <<"u", "5">>,
         <<"i", "5">>), "Item URL")

ItemUntitled == Item(<<>>, <<"$", "1", ",", "0", "0", "0">>,
         <<"$", "5">>,
         <<"u", "6">>,
         <<"i", "6">>)

SampleRecords ==
    {ItemScript, ItemMug, ItemMugPlain, ItemLamp, ItemUntitled, ItemBad, ItemNoUrl}

\* all sequences over S of length at most n
SeqUpTo(S, n) == UNION {[1..k -> S] : k \in 0..n}

CategoryLists ==
    {<<>>,
     <<"Scripts & Screenplays">>,
     <<"Coffee & Kitchen">>,
     <<"Scripts & Screenplays", "Coffee & Kitchen">>,
     <<"Coffee & Kitchen", "Scripts & Screenplays">>,
     <<"Other", "Coffee & Kitchen">>,
     <<"Scripts & Screenplays", "Coffee & Kitchen", "Other">>,
     <<"Cameras & Camcorders">>}

Keywords ==
    {<<>>,
     <<"s", "c", "r", "i", "p", "t">>,
     <<"M", "U", "G">>,
     <<"a">>,
     <<" ">>,
     <<"a", ".", "p">>,
     <<"(">>}

PriceFilters == {None, <<0, 50>>, <<50, 1000>>, <<51, 999>>, <<1000, 50>>}

PriceAlphabet == {"$", ",", " ", "-", "+", "_", "1", "2", "x"}
ShortStrings == SeqUpTo(PriceAlphabet, MaxStrLen)

SoldSamples ==
    {<<"$", "1", ",", "2", "3", "4">>,
     <<" ", "$", "1", ",", "0", "0", "0", " ">>,
     <<"1", ",", "2", "3", "4", ",", "5", "6", "7">>,
     <<"$", "0", "0", "7">>,
     <<"$", " ", "1", "2">>,
     <<"$", "1", " ", "2">>,
     <<"-", "1", ",", "0", "0", "0">>,
     <<"$", "1", "_", "0", "0", "0">>}

EstimateSamples ==
    {<<"$", "8", "0", "0", " ", "-", " ", "$", "1", ",", "2", "0", "0">>,
     <<"$", "1", ",", "2", "0", "0", " ", "-", " ", "$", "8", "0", "0">>,
     <<"$", "1", ",", "0", "0", "0", "-", "$", "2", ",", "0", "0", "0">>,
     <<" ", "$", "1", "0", " ", "-", "$", "1", "0", " ">>,
     <<"$", "1", ",", "5", "0", "0">>,
     <<"$", "5", " ", "-", " ", "+", "7">>,
     <<"$", "1", "_", "0", " ", "-", " ", "$", "2", "0">>,
     <<"$", "5", " ", "-", " ", "$", "6", " ", "-", " ", "$", "7">>,
     <<"$", "5", " ", "-", " ", "$", "x">>}

TitleTokens ==
    {<<"s", "c", "r", "i", "p", "t">>,
     <<"c", "a", "m", "e", "r", "a">>,
     <<"l", "i", "g", "h", "t", "i", "n", "g">>,
     <<"b", "o", "o", "k">>,
     <<"s", "i", "g", "n", "e", "d", " ", "p", "o", "s", "t", "e", "r">>,
     <<"t", "a", "b", "l", "e">>,
     <<"c", "u", "p">>,
     <<"b", "a", "s", "s">>,
     <<"r", "e", "c", "o", "r", "d">>,
     <<"p", "r", "o", "p">>,
     <<" ">>,
     <<"x">>,
     <<"C", "A", "M", "E", "R", "A">>,
     <<"S", "c", "r">>,
     <<"i", "p", "t">>}

RECURSIVE Flatten(_)
Flatten(ss) == IF ss = <<>> THEN <<>> ELSE Head(ss) \o Flatten(Tail(ss))

AllKeywords ==
    UNION {{category_keywords[c].keywords[k] :
                k \in 1..Len(category_keywords[c].keywords)} :
           c \in 1..Len(category_keywords)}

EnumTitles ==
    AllKeywords \cup {Flatten(ts) : ts \in SeqUpTo(TitleTokens, MaxTitleTokens)}

\* one record per enumerated sold-price text, estimate text and title
LoadRecords ==
    LET lamp == <<"L", "a", "m", "p">>
        five == <<"$", "5">>
    IN  {Item(lamp, s, five, <<"u">>, <<"i">>) : s \in ShortStrings \cup SoldSamples}
        \cup {Item(lamp, five, e, <<"u">>, <<"i">>) : e \in ShortStrings \cup EstimateSamples}
        \cup {Item(t, five, five, <<"u">>, <<"i">>) : t \in EnumTitles}

-----------------------------------------------------------------------------
(* The memoisation of the three functions by @st.cache_data: a call whose   *)
(* argument key is stored returns the stored value, any other call runs the *)
(* function and stores what it returns; a call that raises stores nothing   *)

\* variant: the key leaves the price filter out
FilterKeyNoPrice(d, cats, kw, pf) == <<d, cats, kw>>

\* the key of a call of get_filtered_data: its arguments as they are passed,
\* the frame by its content, the category list in the order given
FilterKey(d, cats, kw, pf) == <<d, cats, kw, pf>>

\* the cached get_filtered_data(df, cats, kw, pf)
CachedGetFilteredDataOf(cats, kw, pf) ==
    LET key == FilterKey(df, cats, kw, pf)
    IN  /\ key \in DOMAIN filter_cache
              \/ Cardinality(DOMAIN filter_cache) < MaxCached
        /\ selected_categories' = cats
        /\ keyword' = kw
        /\ price_filter' = pf
        /\ IF key \in DOMAIN filter_cache
           THEN /\ filtered_df' = filter_cache[key]
                /\ pc' = "filter_hit"
                /\ UNCHANGED filter_cache
           ELSE IF kw # <<>> /\ RegexError(kw)
                THEN /\ pc' = "filter_raised"
                     /\ UNCHANGED <<filtered_df, filter_cache>>
                ELSE /\ filtered_df' = get_filtered_data(df, cats, kw, pf)
                     /\ filter_cache' = Put(filter_cache, key, filtered_df')
                     /\ pc' = "filter_miss"

\* the cached calculate_summary_stats(filtered_df)
CachedCalculateSummaryStats ==
    /\ pc \in {"filter_hit", "filter_miss"}
    /\ IF filtered_df \in DOMAIN stats_cache
       THEN /\ stats' = stats_cache[filtered_df]
            /\ pc' = "cached_stats"
            /\ UNCHANGED stats_cache
       ELSE \E r \in calculate_summary_stats(filtered_df) :
               /\ stats' = r
               /\ IF r = StatsRaised
                  THEN pc' = "stats_raised" /\ UNCHANGED stats_cache
                  ELSE /\ pc' = "cached_stats"
                       /\ stats_cache' = Put(stats_cache, filtered_df, r)
    /\ UNCHANGED <<load_cache, filter_cache, download, data, lists, df, filterArgs,
                   filtered_df, ranking, app>>

\* the next run: the cached load_data() returns the stored table
CachedLoadData ==
    /\ pc = "cached_stats"
    /\ df' = load_cache["load_data"]
    /\ pc' = "loaded"
    /\ selected_categories' = <<>> /\ keyword' = <<>> /\ price_filter' = None
    /\ filtered_df' = <<>>
    /\ stats' = NoStats
    /\ UNCHANGED <<caches, download, data, lists, ranking, app>>

-----------------------------------------------------------------------------
(* The image download script, download_images_selenium.py *)

\* s up to the first occurrence of c
CutAt(s, c) == IF Find(s, c) = 0 THEN s ELSE SubSeq(s, 1, Find(s, c) - 1)

\* s after "://" and the network location that follows it
AfterNetloc(s) ==
    LET p == Find(s, ":")
        rest == SubSeq(s, p + 3, Len(s))
    IN  IF p # 0 /\ p + 2 <= Len(s) /\ s[p + 1] = "/" /\ s[p + 2] = "/"
        THEN IF Find(rest, "/") = 0 THEN <<>>
             ELSE SubSeq(rest, Find(rest, "/"), Len(rest))
        ELSE s

\* urllib.parse.urlparse(img_url).path, for a URL without parameters
UrlPath(img_url) == AfterNetloc(CutAt(CutAt(img_url, "#"), "?"))

\* the last element of a non-empty list, list[-1]
Last(list) == list[Len(list)]

\* os.path.basename(path)
Basename(path) == Last(Split(path, "/"))

\* 'if "." in base_name: ext = base_name.split(".")[-1] else: ext = "jpg"'
Ext(base_name) ==
    IF Find(base_name, ".") # 0 THEN Last(Split(base_name, "."))
    ELSE <<"j", "p", "g">>

\* item.get(key)
ItemGet(item, key) == IF Has(item, key) THEN item[key] ELSE None

\* f"{item_id}.{ext}"
Filename(item) ==
    ItemGet(item, "Item ID") \o <<".">> \o Ext(Basename(UrlPath(item["Item Image"])))

\* the dict appended to the manifest
ManifestEntry(item) ==
    [ItemID |-> ItemGet(item, "Item ID"),
     Filename |-> Filename(item),
     Title |-> ItemGet(item, "Title"),
     SoldPrice |-> ItemGet(item, "Sold Price"),
     EstimatedPrice |-> ItemGet(item, "Estimated Price")]

\* how the try block of one item ends: at its last statement, or in
\* driver.get, in get_screenshot_as_png, or in writing the file
TryResults == {"ok", "get_failed", "screenshot_failed", "write_failed"}

\* variant: the entry is appended after the try statement
AppendedAlways(list, item, result) == Append(list, ManifestEntry(item))

\* manifest.append(...) is the last statement of the try block
Appended(list, item, result) ==
    IF result = "ok" THEN Append(list, ManifestEntry(item)) ELSE list

\* idx of "for idx, item in enumerate(data, 1)"
NextIdx == Len(attempts) + 1

\* one iteration of the main loop. The file name is computed before the try
\* statement: when the item has no "Item Image" urlparse(None) gives a bytes
\* path and '"." in base_name' raises TypeError, which nothing catches.
DownloadItemOf(item, result) ==
    IF ~Has(item, "Item Image")
    THEN /\ pc' = "download_raised"
         /\ UNCHANGED <<manifest, attempts>>
    ELSE /\ attempts' = Append(attempts, [idx |-> NextIdx, result |-> result])
         /\ manifest' = Appended(manifest, item, result)
         /\ pc' = "download"

DownloadItem ==
    /\ pc = "download"
    /\ NextIdx <= Len(data)
    /\ \E result \in TryResults : DownloadItemOf(data[NextIdx], result)
    /\ UNCHANGED <<caches, dumps, data, lists, df, filterArgs, filtered_df, stats,
                   ranking, app>>

\* after the loop: driver.quit(), then json.dump(manifest, f)
SaveManifest ==
    /\ pc = "download"
    /\ NextIdx > Len(data)
    /\ dumps' = Append(dumps, manifest)
    /\ pc' = "download_done"
    /\ UNCHANGED <<caches, manifest, attempts, data, lists, df, filterArgs, filtered_df,
                   stats, ranking, app>>

-----------------------------------------------------------------------------
(* Specifications *)

\* nothing computed, nothing stored, nothing rendered yet
InitLocals ==
    /\ sold_prices = <<>> /\ estimated_low = <<>> /\ estimated_high = <<>>
    /\ estimated_avg = <<>> /\ estimated_price_raw = <<>>
    /\ titles = <<>> /\ urls = <<>> /\ images = <<>>
    /\ df = <<>>
    /\ selected_categories = <<>> /\ keyword = <<>> /\ price_filter = None
    /\ filtered_df = <<>>
    /\ stats = NoStats
    /\ n_items = 0 /\ ascending = FALSE /\ top_items = <<>>
    /\ session_state = <<>> /\ shown = {} /\ aliased = FALSE
    /\ text_states = <<>> /\ checkbox_states = <<>> /\ slider_state = None
    /\ event = "none"
    /\ manifest = <<>> /\ attempts = <<>> /\ dumps = <<>>
    /\ load_cache = <<>> /\ filter_cache = <<>> /\ stats_cache = <<>>

\* the start of load_data
InitRun ==
    /\ pc = "load_data"
    /\ InitLocals

\* the script run over a small source array
Init ==
    /\ data \in SeqUpTo(SampleRecords, MaxRecords)
    /\ key_identity = FALSE
    /\ InitRun

GetFilteredData ==
    /\ pc = "loaded"
    /\ \E cats \in CategoryLists, kw \in Keywords, pf \in PriceFilters :
          GetFilteredDataOf(cats, kw, pf)
    /\ UNCHANGED <<caches, download, data, lists, df, stats, ranking, app>>

Next == LoadItem \/ LoadReturn \/ GetFilteredData \/ CalculateSummaryStats

Spec == Init /\ [][Next]_vars

\* the n_items of the calls of main_dashboard.py, and every count up to one
\* more than the rows of the largest table
ItemCounts == 1..(MaxRecords + 1) \cup {8, 10}

CreateHorizontalBarChart == \E n \in ItemCounts, asc \in BOOLEAN : CreateHorizontalBarChartOf(n, asc)

NextRank == LoadItem \/ LoadReturn \/ CreateHorizontalBarChart

\* load_data, then one ranking of the table
SpecRank == Init /\ [][NextRank]_vars

\* the records of the script runs
AppRecords == {ItemScript, ItemMugPlain}

InitApp ==
    /\ data \in SeqUpTo(AppRecords, MaxRecords)
    /\ key_identity \in BOOLEAN
    /\ InitRun

LynchFilter ==
    \E typed \in AppKeywords, checked \in [Elements(categories(df)) -> BOOLEAN] :
        LynchFilterOf(checked, typed)

NextApp ==
    \/ LoadItem \/ LoadReturn
    \/ CreateSidebarFilters \/ ApplyFilters \/ Render \/ Rerun
    \/ LynchReturn \/ LynchFilter \/ LynchSummary

\* the script of main_dashboard.py, run after run, and the script of
\* lynch_dashboard.py up to its summary block
SpecApp == InitApp /\ [][NextApp]_vars

\* load_data alone, over one record with enumerated field texts
InitLoad ==
    /\ data \in {<<r>> : r \in LoadRecords}
    /\ key_identity = FALSE
    /\ InitRun

NextLoad == LoadItem \/ LoadReturn

SpecLoad == InitLoad /\ [][NextLoad]_vars

\* the category lists of the cached calls: the two orders of one selection
\* and a narrower one
CacheCategoryLists ==
    {<<"Coffee & Kitchen", "Scripts & Screenplays">>,
     <<"Scripts & Screenplays", "Coffee & Kitchen">>,
     <<"Scripts & Screenplays">>}

\* the price filters of the cached calls
CachePriceFilters == {None, <<50, 50>>}

InitCache ==
    /\ data \in SeqUpTo(AppRecords, MaxRecords)
    /\ key_identity = FALSE
    /\ InitRun

CachedGetFilteredData ==
    /\ pc = "loaded"
    /\ \E cats \in CacheCategoryLists, kw \in AppKeywords, pf \in CachePriceFilters :
          CachedGetFilteredDataOf(cats, kw, pf)
    /\ UNCHANGED <<load_cache, stats_cache, download, data, lists, df, stats,
                   ranking, app>>

NextCache ==
    \/ LoadItem \/ LoadReturn
    \/ CachedGetFilteredData \/ CachedCalculateSummaryStats \/ CachedLoadData

\* run after run of cached calls: load_data, get_filtered_data over any filter
\* spec, calculate_summary_stats
SpecCache == InitCache /\ [][NextCache]_vars

\* the record with an item number
WithId(item, id) ==
    [x \in DOMAIN item \cup {"Item ID"} |-> IF x = "Item ID" THEN id ELSE item[x]]

\* the record with another image URL
WithImage(item, img_url) == [item EXCEPT !["Item Image"] = img_url]

\* the records of the download script: an image URL with an extension and a
\* query, one without an extension, and a record without an image
DownloadRecords ==
    {WithId(WithImage(ItemScript, <<"h", ":", "/", "/", "x", "/", "a", ".", "p", "n", "g", "?", "w">>),
            <<"7">>),
     WithId(WithImage(ItemMugPlain, <<"h", ":", "/", "/", "x", "/", "b">>), <<"8">>),
     WithId(Without(ItemLamp, "Item Image"), <<"9">>)}

InitDownload ==
    /\ data \in SeqUpTo(DownloadRecords, MaxRecords)
    /\ key_identity = FALSE
    /\ pc = "download"
    /\ InitLocals

NextDownload == DownloadItem \/ SaveManifest

\* download_images_selenium.py from its main loop on
SpecDownload == InitDownload /\ [][NextDownload]_vars

NextClassify == LoadItem \/ LoadReturn \/ LynchReturn

\* the table of either script, over one record with enumerated field texts
SpecClassify == InitLoad /\ [][NextClassify]_vars

-----------------------------------------------------------------------------
(* Vocabulary of the properties *)

\* load_data has returned its table
Returned ==
    pc \in {"loaded", "filtered", "filter_raised", "stats", "stats_raised", "ranked"}

\* at pc = "load_raised": the record whose iteration raised
RaisedAt == data[NextItem]

HasAllKeys(item) ==
    {"Title", "Sold Price", "Estimated Price", "Item URL", "Item Image"} \subseteq DOMAIN item

AllDigits(s) == s # <<>> /\ \A k \in 1..Len(s) : s[k] \in Digits

\* digit groups separated by single commas
IsGroups(s) ==
    /\ s # <<>>
    /\ \A k \in 1..Len(s) : s[k] \in Digits \cup {","}
    /\ s[1] # "," /\ s[Len(s)] # ","
    /\ \A k \in 1..(Len(s) - 1) : ~(s[k] = "," /\ s[k + 1] = ",")

\* "$"? digits ("," digits)* between optional whitespace
IsAmount(s) ==
    LET u == Strip(s) IN
    IF u # <<>> /\ u[1] = "$" THEN IsGroups(Tail(u)) ELSE IsGroups(u)

\* the number an amount denotes: its digits read in base ten
AmountValue(s) == DecVal(SelectSeq(s, LAMBDA x : x \in Digits))

Before(s, p) == SubSeq(s, 1, p - 1)
After(s, p) == SubSeq(s, p + 1, Len(s))

\* two amounts joined by a hyphen
IsRange(s) ==
    LET h == Find(s, "-") IN
    h # 0 /\ IsAmount(Before(s, h)) /\ IsAmount(After(s, h))

RangeLow(s) == AmountValue(Before(s, Find(s, "-")))
RangeHigh(s) == AmountValue(After(s, Find(s, "-")))

SoldText(k) == data[k]["Sold Price"]
EstText(k) == data[k]["Estimated Price"]

-----------------------------------------------------------------------------
(* Properties of get_filtered_data *)

Letters == {UpperAlpha[k] : k \in 1..Len(UpperAlpha)}
               \cup {LowerAlpha[k] : k \in 1..Len(LowerAlpha)}

AlnumSpace(s) == \A k \in 1..Len(s) : s[k] \in Letters \cup Digits \cup {" "}

\* the row satisfies the filter spec of the last call
Wanted(r) ==
    /\ \E j \in 1..Len(selected_categories) : selected_categories[j] = r.Category
    /\ keyword = <<>> \/ Contains(Lower(r.Title), Lower(keyword))
    /\ price_filter = None
         \/ (price_filter[1] <= r.SoldPrice /\ r.SoldPrice <= price_filter[2])

\* C1: for a keyword of letters, digits and spaces, get_filtered_data returns
\* exactly the rows of the table whose category is selected, whose lowercased
\* title contains the lowercased keyword (if any) and whose sold price lies in
\* the inclusive price range (if any), in the order of the table, none twice;
\* and it does not raise.
C1_FilterExact ==
    AlnumSpace(keyword) =>
        /\ pc # "filter_raised"
        /\ pc = "filtered" =>
            /\ \A j \in 1..Len(filtered_df) :
                  /\ \E k \in 1..Len(df) : df[k] = filtered_df[j]
                  /\ Wanted(filtered_df[j])
            /\ \A k \in 1..Len(df) :
                  Wanted(df[k]) => \E j \in 1..Len(filtered_df) : filtered_df[j] = df[k]
            /\ \A j, k \in 1..Len(filtered_df) :
                  j < k => filtered_df[j].index < filtered_df[k].index

\* a keyword and a price range keep the first and the third of three rows
C1_Witness ==
    /\ pc = "filtered"
    /\ Len(df) = 3 /\ Len(filtered_df) = 2
    /\ keyword # <<>> /\ AlnumSpace(keyword) /\ price_filter # None
    /\ filtered_df[1].index = 0 /\ filtered_df[2].index = 2

-----------------------------------------------------------------------------
(* Properties of detect_category *)

PriorityOrder ==
    <<"Scripts & Screenplays", "Cameras & Camcorders", "Lighting Equipment",
      "Books & Reference", "Posters & Prints", "Furniture", "Coffee & Kitchen",
      "Instruments & Audio", "Records & Music", "Props & Memorabilia">>

Labels == {PriorityOrder[c] : c \in 1..Len(PriorityOrder)} \cup {"Other"}

\* the entries with a keyword that occurs in the lowercased title
Hits(title) ==
    {c \in 1..Len(category_keywords) :
        \E kw \in {category_keywords[c].keywords[k] :
                      k \in 1..Len(category_keywords[c].keywords)} :
            \E p \in 1..Len(title) :
                /\ p + Len(kw) - 1 <= Len(title)
                /\ \A j \in 1..Len(kw) : LowerChar(title[p + j - 1]) = kw[j]}

\* C2: the category of a row is the label of the first entry, in the priority
\* order, one of whose keywords occurs in the lowercased title, and "Other"
\* exactly when no keyword of any entry occurs in it.
C2_FirstMatch ==
    pc = "loaded" =>
        \A k \in 1..Len(df) :
            LET hits == Hits(data[k]["Title"]) IN
            /\ hits # {} =>
                  \E c \in hits :
                      /\ \A b \in hits : c <= b
                      /\ df[k].Category = PriorityOrder[c]
            /\ df[k].Category = "Other" <=> hits = {}

\* a title with keywords of two entries, the later entry's keyword first
C2_Witness ==
    /\ pc = "loaded"
    /\ data[1]["Title"] = <<"c", "a", "m", "e", "r", "a", "s", "c", "r", "i", "p", "t">>
    /\ df[1].Category = "Scripts & Screenplays"

\* C3: every row of the loaded table, the one with the empty title included,
\* has one category, drawn from the closed set of 11 labels, and the row counts
\* of the 11 labels add up to the number of rows.
RECURSIVE SumCounts(_, _)
SumCounts(d, labels) ==
    IF labels = {} THEN 0
    ELSE LET l == CHOOSE x \in labels : TRUE
         IN  CountOf(d, l) + SumCounts(d, labels \ {l})

C3_Partition ==
    Returned =>
        /\ Cardinality(Labels) = 11
        /\ \A k \in 1..Len(df) : df[k].Category \in Labels
        /\ SumCounts(df, Labels) = Len(df)

\* three rows in three categories, one of them with the empty title
C3_Witness ==
    /\ pc = "loaded"
    /\ Len(df) = 3
    /\ \E k \in 1..3 : df[k].Title = <<>> /\ df[k].Category = "Other"
    /\ Cardinality({df[k].Category : k \in 1..3}) = 3

-----------------------------------------------------------------------------
(* Properties of load_data *)

\* C4: an estimate "$A - $B" gives Estimated Low = A, Estimated High = B and
\* Estimate Avg = (A+B)/2; a single-value estimate "$V" gives all three = V;
\* load_data does not fail on either form.
C4_Estimate ==
    /\ pc = "loaded" =>
          \A k \in 1..Len(df) :
              /\ IsRange(EstText(k)) =>
                    /\ df[k].EstimatedLow = RangeLow(EstText(k))
                    /\ df[k].EstimatedHigh = RangeHigh(EstText(k))
                    /\ 2 * df[k].EstimateAvg.num =
                          (RangeLow(EstText(k)) + RangeHigh(EstText(k)))
                              * df[k].EstimateAvg.den
              /\ IsAmount(EstText(k)) =>
                    /\ df[k].EstimatedLow = AmountValue(EstText(k))
                    /\ df[k].EstimatedHigh = AmountValue(EstText(k))
                    /\ df[k].EstimateAvg.num =
                          AmountValue(EstText(k)) * df[k].EstimateAvg.den
    /\ pc = "load_raised" /\ HasAllKeys(RaisedAt) /\ IsAmount(RaisedAt["Sold Price"]) =>
          ~IsRange(RaisedAt["Estimated Price"]) /\ ~IsAmount(RaisedAt["Estimated Price"])

C4_Witness ==
    /\ pc = "loaded"
    /\ EstText(1) = <<"$", "8", "0", "0", " ", "-", " ", "$", "1", ",", "2", "0", "0">>
    /\ df[1].EstimatedLow = 800 /\ df[1].EstimatedHigh = 1200
    /\ df[1].EstimateAvg = Rat(2000, 2)

\* C5: a valid sold-price text (optional "$", digit groups separated by
\* commas, optional surrounding whitespace) gives as Sold Price the
\* non-negative integer left when the "$" and the commas are deleted, and
\* load_data does not fail on it.
C5_SoldPrice ==
    /\ pc = "loaded" =>
          \A k \in 1..Len(df) :
              IsAmount(SoldText(k)) =>
                  df[k].SoldPrice = AmountValue(SoldText(k)) /\ df[k].SoldPrice >= 0
    /\ pc = "load_raised" /\ HasAllKeys(RaisedAt) /\ IsAmount(RaisedAt["Estimated Price"]) =>
          ~IsAmount(RaisedAt["Sold Price"])

C5_Witness ==
    /\ pc = "loaded"
    /\ SoldText(1) = <<"$", "1", ",", "2", "3", "4">>
    /\ df[1].SoldPrice = 1234

\* the text left when "$", "," and the surrounding whitespace are removed
Bare(s) == Strip(Remove(Remove(s, "$"), ","))

\* C6: load_data fails for every record whose sold-price text, bare, is not a
\* non-empty string of decimal digits, and for every record whose estimate
\* holds a hyphen but does not split on it into exactly two tokens that are
\* purely numeric after trimming. (Stated of the table that was returned.)
C6_RejectsMalformed ==
    pc = "loaded" =>
        \A k \in 1..Len(df) :
            /\ AllDigits(Bare(SoldText(k)))
            /\ Find(EstText(k), "-") # 0 =>
                  LET parts == Split(Bare(EstText(k)), "-") IN
                  /\ Len(parts) = 2
                  /\ AllDigits(Strip(parts[1])) /\ AllDigits(Strip(parts[2]))

\* C7: if any record of the array fails to parse, load_data returns no table:
\* the run ends in the raise with df never assigned, and a table that was
\* returned has a row for every record of the array.
RecordFails(item) == ~ParsesOk(item) \/ ~HasAllKeys(item)

C7_AbortWholeLoad ==
    /\ (\E k \in 1..Len(data) : RecordFails(data[k])) => ~Returned /\ df = <<>>
    /\ pc = "load_raised" => df = <<>> /\ RecordFails(RaisedAt)
    /\ Returned => Len(df) = Len(data)

\* the raise came after two good records had been appended
C7_Witness ==
    /\ pc = "load_raised"
    /\ Len(sold_prices) >= 2
    /\ Len(data) = 3
    /\ df = <<>>

\* C8: every row parsed from an estimate of the input format has
\* 0 <= Estimated Low <= Estimated High, the two equal exactly when the
\* source gave a single value or two equal values.
C8_LowLeHigh ==
    pc = "loaded" =>
        \A k \in 1..Len(df) :
            /\ IsAmount(EstText(k)) =>
                  0 <= df[k].EstimatedLow /\ df[k].EstimatedLow = df[k].EstimatedHigh
            /\ IsRange(EstText(k)) =>
                  /\ 0 <= df[k].EstimatedLow
                  /\ df[k].EstimatedLow <= df[k].EstimatedHigh
                  /\ df[k].EstimatedLow = df[k].EstimatedHigh
                        <=> RangeLow(EstText(k)) = RangeHigh(EstText(k))

\* C9: the table has one row per record, row i made from record i: Title,
\* URL, Image and the raw estimate unchanged, the numbers parsed from record
\* i's texts; records that agree on the five known fields give equal rows.
Known(item) ==
    <<item["Title"], item["Sold Price"], item["Estimated Price"],
      item["Item URL"], item["Item Image"]>>

SameButIndex(r, q) == [r EXCEPT !.index = 0] = [q EXCEPT !.index = 0]

C9_RowPerRecord ==
    Returned =>
        /\ Len(df) = Len(data)
        /\ \A k \in 1..Len(df) :
              /\ df[k].index = k - 1
              /\ df[k].Title = data[k]["Title"]
              /\ df[k].URL = data[k]["Item URL"]
              /\ df[k].Image = data[k]["Item Image"]
              /\ df[k].EstimatedPrice = data[k]["Estimated Price"]
              /\ df[k].SoldPrice = AmountValue(SoldText(k))
              /\ IsAmount(EstText(k)) =>
                    /\ df[k].EstimatedLow = AmountValue(EstText(k))
                    /\ df[k].EstimatedHigh = AmountValue(EstText(k))
              /\ IsRange(EstText(k)) =>
                    /\ df[k].EstimatedLow = RangeLow(EstText(k))
                    /\ df[k].EstimatedHigh = RangeHigh(EstText(k))
        /\ \A j, k \in 1..Len(df) :
              Known(data[j]) = Known(data[k]) => SameButIndex(df[j], df[k])

\* three different records, two of them alike but for an unknown extra field
C9_Witness ==
    /\ pc = "loaded"
    /\ Len(df) = 3
    /\ data[1] # data[2] /\ data[2] # data[3] /\ data[1] # data[3]
    /\ "Lot" \in DOMAIN data[1] /\ "Lot" \notin DOMAIN data[3]
    /\ Known(data[1]) = Known(data[3])

-----------------------------------------------------------------------------
(* Properties of calculate_summary_stats *)

\* C10: on an empty subset calculate_summary_stats does not raise and returns
\* total_items = 0, total_value = 0, average_price = 0, min_price = 0,
\* max_price = 0, most_expensive = None, cheapest = None and
\* most_common_category = "N/A".
C10_EmptyStats ==
    pc \in {"stats", "stats_raised"} /\ filtered_df = <<>> =>
        /\ pc = "stats"
        /\ stats.total_items = 0
        /\ stats.total_value = 0
        /\ stats.average_price.num = 0
        /\ stats.min_price = 0
        /\ stats.max_price = 0
        /\ stats.most_expensive = NoItem
        /\ stats.cheapest = NoItem
        /\ stats.most_common_category = "N/A"

\* the statistics of an empty view of a table with rows
C10_Witness ==
    /\ pc = "stats"
    /\ Len(df) >= 1
    /\ filtered_df = <<>>
    /\ stats.total_items = 0

\* the row at position k of the view is the first of the view with its price
FirstOfPrice(k) ==
    \A j \in 1..(k - 1) : filtered_df[j].SoldPrice # filtered_df[k].SoldPrice

\* C13: on a non-empty subset min_price and max_price are the least and the
\* greatest Sold Price of the subset, cheapest and most_expensive are rows of
\* the subset with those prices, and among rows sharing the extreme price the
\* returned row is the first in table order.
C13_Extremes ==
    pc = "stats" /\ filtered_df # <<>> =>
        /\ \A k \in 1..Len(filtered_df) :
              /\ stats.min_price <= filtered_df[k].SoldPrice
              /\ filtered_df[k].SoldPrice <= stats.max_price
        /\ \E k \in 1..Len(filtered_df) :
              /\ stats.cheapest = filtered_df[k]
              /\ filtered_df[k].SoldPrice = stats.min_price
              /\ FirstOfPrice(k)
        /\ \E k \in 1..Len(filtered_df) :
              /\ stats.most_expensive = filtered_df[k]
              /\ filtered_df[k].SoldPrice = stats.max_price
              /\ FirstOfPrice(k)

\* two rows share the greatest price, a third is cheaper, and the first of
\* the two is the one returned
C13_Witness ==
    /\ pc = "stats"
    /\ Len(filtered_df) = 3
    /\ filtered_df[2].SoldPrice = stats.max_price
    /\ filtered_df[3].SoldPrice = stats.max_price
    /\ filtered_df[1].SoldPrice < stats.max_price
    /\ stats.most_expensive = filtered_df[2]
    /\ stats.cheapest = filtered_df[1]

\* the number of rows of category c among the first k rows of the view
CountUpTo(k, c) == Cardinality({j \in 1..k : filtered_df[j].Category = c})

\* the greatest row count of a category of the view
MaxCount == CHOOSE m \in 1..Len(filtered_df) :
    /\ \E k \in 1..Len(filtered_df) : CountOf(filtered_df, filtered_df[k].Category) = m
    /\ \A k \in 1..Len(filtered_df) : CountOf(filtered_df, filtered_df[k].Category) <= m

\* the position in table order at which category c reaches the greatest count
ReachedAt(c) == CHOOSE k \in 1..Len(filtered_df) :
    /\ CountUpTo(k, c) = MaxCount
    /\ \A j \in 1..(k - 1) : CountUpTo(j, c) < MaxCount

\* C14: on a non-empty subset most_common_category is a category of maximal
\* row count, and among categories tied for that count it is the first one
\* reaching the count in table iteration order.
C14_ModalCategory ==
    pc = "stats" /\ filtered_df # <<>> =>
        /\ CountOf(filtered_df, stats.most_common_category) = MaxCount
        /\ \A k \in 1..Len(filtered_df) :
              CountOf(filtered_df, filtered_df[k].Category) = MaxCount =>
                  ReachedAt(stats.most_common_category)
                      <= ReachedAt(filtered_df[k].Category)

\* the sum of the Sold Price of the rows of the view at the positions of P
RECURSIVE PriceSum(_)
PriceSum(P) ==
    IF P = {} THEN 0
    ELSE LET k == CHOOSE x \in P : TRUE
         IN  filtered_df[k].SoldPrice + PriceSum(P \ {k})

\* C15: total_items is the number of rows of the subset, total_value is the
\* sum of their Sold Price, and total_value = total_items * average_price.
C15_Totals ==
    pc = "stats" =>
        /\ stats.total_items = Len(filtered_df)
        /\ stats.total_value = PriceSum(1..Len(filtered_df))
        /\ stats.total_value * stats.average_price.den
              = stats.total_items * stats.average_price.num

\* three rows whose mean is not a whole number
C15_Witness ==
    /\ pc = "stats"
    /\ Len(filtered_df) = 3
    /\ stats.total_items = 3
    /\ stats.total_value = 1100
    /\ stats.average_price = Rat(1100, 3)

-----------------------------------------------------------------------------
(* Algebra of get_filtered_data *)

\* C17: filtering is idempotent: filtering the view again with the filter
\* spec that produced it returns the same rows in the same order.
C17_Idempotent ==
    pc = "filtered" =>
        get_filtered_data(filtered_df, selected_categories, keyword, price_filter)
            = filtered_df

\* a view under a category list, a keyword and a price range that keeps some
\* rows of the table and drops others
C17_Witness ==
    /\ pc = "filtered"
    /\ selected_categories # <<>> /\ keyword # <<>> /\ price_filter # None
    /\ filtered_df # <<>>
    /\ Len(filtered_df) < Len(df)
    /\ get_filtered_data(filtered_df, selected_categories, keyword, price_filter)
           = filtered_df


\* C18: filtering is monotonic: the rows kept under a category list are kept
\* under every larger category list, with the keyword cleared, and with the
\* price filter cleared, the other arguments unchanged.
C18_Monotonic ==
    pc = "filtered" =>
        /\ \A cats \in CategoryLists :
              Elements(selected_categories) \subseteq Elements(cats) =>
                  Rows(filtered_df)
                      \subseteq Rows(get_filtered_data(df, cats, keyword, price_filter))
        /\ Rows(filtered_df)
              \subseteq Rows(get_filtered_data(df, selected_categories, <<>>, price_filter))
        /\ Rows(filtered_df)
              \subseteq Rows(get_filtered_data(df, selected_categories, keyword, None))

\* a view that keeps a row and that a larger category list and the cleared
\* keyword each extend by a row
C18_Witness ==
    /\ pc = "filtered"
    /\ keyword # <<>> /\ price_filter # None
    /\ Len(filtered_df) = 1
    /\ \E cats \in CategoryLists :
          /\ Elements(selected_categories) \subseteq Elements(cats)
          /\ Len(get_filtered_data(df, cats, keyword, price_filter)) = 2
    /\ Len(get_filtered_data(df, selected_categories, <<>>, price_filter)) = 2
    /\ Rows(filtered_df)
          \subseteq Rows(get_filtered_data(df, selected_categories, <<>>, price_filter))

-----------------------------------------------------------------------------
(* The keyword as a pattern *)

\* the call did not fail on the keyword
KeywordAccepted == pc # "filter_raised"

\* the keyword stage kept exactly the rows whose lowercased title contains
\* the lowercased keyword
KeywordLiteral ==
    pc = "filtered" /\ keyword # <<>> =>
        \A k \in 1..Len(df) : df[k] \in Rows(filtered_df) <=> Wanted(df[k])

\* C19: for every non-empty keyword, among them ".", "(", "[", "*", "+", "?",
\* "$" and "\", the keyword filter is the literal case-insensitive substring
\* test, and the filter step fails on no keyword text.
C19_LiteralKeyword == KeywordAccepted /\ KeywordLiteral

-----------------------------------------------------------------------------
(* Properties of the top-N ranking *)

Smaller(a, b) == IF a <= b THEN a ELSE b

\* price a is strictly more extreme than price b in the direction ranked
MoreExtreme(a, b) == IF ascending THEN a < b ELSE a > b

\* top_items holds min(n_items, rows) distinct rows of the table
RankedCount ==
    /\ Len(top_items) = Smaller(n_items, Len(df))
    /\ Rows(top_items) \subseteq Rows(df)
    /\ \A i, j \in 1..Len(top_items) : i # j => top_items[i] # top_items[j]

\* no row left out is strictly more extreme than a row of top_items
RankedExtreme ==
    \A r \in Rows(df) \ Rows(top_items) : \A t \in Rows(top_items) :
        ~MoreExtreme(r.SoldPrice, t.SoldPrice)

\* of rows of equal price the earlier of the table is selected first
RankedTiesSelected ==
    \A r \in Rows(df) \ Rows(top_items) : \A t \in Rows(top_items) :
        r.SoldPrice = t.SoldPrice => t.index < r.index

\* rows of equal price are displayed in the order of the table
RankedTiesDisplayed ==
    \A i, j \in 1..Len(top_items) :
        i < j /\ top_items[i].SoldPrice = top_items[j].SoldPrice
            => top_items[i].index < top_items[j].index

\* non-increasing for the largest, non-decreasing for the smallest
RankedSorted ==
    \A k \in 1..(Len(top_items) - 1) :
        ~MoreExtreme(top_items[k + 1].SoldPrice, top_items[k].SoldPrice)

\* C16: the top-N ranking returns exactly min(N, |S|) distinct rows of S, no
\* row left out is strictly more extreme than a row included, rows of equal
\* Sold Price are selected and displayed in original table order, and the
\* result is sorted in display order (non-increasing for 'largest',
\* non-decreasing for 'smallest').
C16_TopN ==
    pc = "ranked" =>
        /\ RankedCount
        /\ RankedExtreme
        /\ RankedTiesSelected
        /\ RankedTiesDisplayed
        /\ RankedSorted

-----------------------------------------------------------------------------
(* Properties of the script run of main_dashboard.py *)

\* create_sidebar_filters has returned in this run
SidebarDone == pc \in {"sidebar", "filter_raised", "stats_raised", "applied",
                       "render_raised", "done"}

\* the run is over: at the end of the script, or raised while rendering
RunOver == pc \in {"done", "render_raised"}

\* C11: when the filter spec matches no item the run reaches the end of the
\* script in a defined no-results state: the warning is shown and nothing
\* that needs at least one row (the summary display, the data table, the
\* treemap, the scatter plot, the over-estimate percentage, the top category,
\* the dumbbell and bar charts, the gallery) is executed on the empty view.
C11_NoResults ==
    /\ pc \in {"stats_raised", "render_raised"} => filtered_df # <<>>
    /\ RunOver /\ filtered_df = <<>> =>
          /\ pc = "done"
          /\ stats = EmptyStats
          /\ "no_match_warning" \in shown
          /\ shown \cap RowConsumers = {}
          /\ top_items = <<>>

\* a run over a table with rows has ended on a view without rows, with the
\* warning of every data tab
C11_Witness ==
    /\ pc = "done"
    /\ Len(df) >= 2
    /\ selected_categories # <<>>
    /\ filtered_df = <<>>
    /\ {"no_match_warning", "table_warning", "treemap_warning", "scatter_warning",
        "insights_warning", "about", "footer"} \subseteq shown

\* C12: with no category checked the view passed to rendering is empty, also
\* when the keyword is empty and the slider at its full range; the unfiltered
\* branch (filtered_df = df) is never taken, because create_sidebar_filters
\* always defines session_state.price_filter.
C12_NoCategoryNoRows ==
    /\ SidebarDone => "price_filter" \in DOMAIN session_state
    /\ ~aliased
    /\ pc \in {"applied", "done"} /\ selected_categories = <<>> =>
          /\ filtered_df = <<>>
          /\ stats.total_items = 0

\* no category checked, no keyword, the slider at its full range, over a
\* table with rows: the view is empty
C12_Witness ==
    /\ pc = "applied"
    /\ df # <<>>
    /\ selected_categories = <<>>
    /\ keyword = <<>>
    /\ session_state["price_filter"] = None
    /\ price_filter = None
    /\ filtered_df = <<>>

-----------------------------------------------------------------------------
(* The base table *)

\* the table as load_data of data_processing.py built it from its lists
MainTable == [k \in 1..Len(titles) |-> Row(k)]

\* the table of lynch_dashboard.py as built before its sidebar
LynchTable == [k \in 1..Len(titles) |-> LynchRow(k)]

\* C20: the base table is never mutated: after any sequence of
\* get_filtered_data, calculate_summary_stats and top-N calls it has the rows,
\* the order and the field values it had right after load_data; likewise in
\* lynch_dashboard, where the Log Sold Price column is assigned on the
\* filtered view.
C20_BaseTableKept ==
    /\ pc \in {"loaded", "sidebar", "sidebar_raised", "filter_raised",
               "stats_raised", "applied", "render_raised", "done"}
          => df = MainTable
    /\ pc \in {"lynch_loaded", "lynch_filtered", "lynch_raised",
               "lynch_stats", "lynch_stats_raised"}
          => df = LynchTable

\* lynch_dashboard with every category checked and no keyword: the filtered
\* frame holds every row and has the new column, the table has not
C20_Witness ==
    /\ pc = "lynch_filtered"
    /\ Len(df) >= 2
    /\ Len(filtered_df) = Len(df)
    /\ \A k \in 1..Len(df) :
          /\ filtered_df[k].LogSoldPrice # NoColumn
          /\ df[k].LogSoldPrice = NoColumn

-----------------------------------------------------------------------------
(* The two classifiers *)

\* C28: the two category classifiers agree: for every title the if / elif
\* chain of lynch_dashboard.py and the keyword table scan of
\* data_processing.py return the same label.
C28_ClassifiersAgree ==
    /\ pc = "loaded" =>
          \A k \in 1..Len(df) : df[k].Category = lynch_detect_category(titles[k])
    /\ pc = "lynch_loaded" =>
          \A k \in 1..Len(df) : df[k].Category = detect_category(titles[k])

\* the chain has classified a title with keywords of two branches, the later
\* branch's keyword first, as the table scan does
C28_Witness ==
    /\ pc = "lynch_loaded"
    /\ titles[1] = <<"c", "a", "m", "e", "r", "a", "s", "c", "r", "i", "p", "t">>
    /\ df[1].Category = "Scripts & Screenplays"
    /\ detect_category(titles[1]) = "Scripts & Screenplays"

-----------------------------------------------------------------------------
(* The full price range and the order of the stages *)

\* (min_price, max_price) of the table, the slider at its full range
FullRange == <<MinSold(df), MaxSold(df)>>

\* the three stages applied to the table in the five other orders
OtherOrders ==
    LET c(d) == FilterByCategory(d, selected_categories)
        k(d) == FilterByKeyword(d, keyword)
        p(d) == FilterByPrice(d, price_filter)
    IN  {p(c(k(df))), k(p(c(df))), c(p(k(df))), k(c(p(df))), c(k(p(df)))}

\* C29: get_filtered_data with price filter None returns the rows, in the
\* order, it returns with the price filter (min Sold Price, max Sold Price)
\* of the table, and the category, keyword and price stages applied in any
\* order give the same subset.
C29_FullRangeAndOrder ==
    pc = "filtered" =>
        /\ df # <<>> /\ price_filter \in {None, FullRange} =>
              /\ filtered_df = get_filtered_data(df, selected_categories, keyword, None)
              /\ filtered_df
                    = get_filtered_data(df, selected_categories, keyword, FullRange)
        /\ OtherOrders = {filtered_df}

\* the price filter is the full range of a table with two prices, and the
\* category and keyword stages keep rows of both prices and drop a row
C29_Witness ==
    /\ pc = "filtered"
    /\ Len(df) = 3
    /\ MinSold(df) < MaxSold(df)
    /\ price_filter = FullRange
    /\ keyword # <<>>
    /\ Len(filtered_df) = 2
    /\ filtered_df[1].SoldPrice # filtered_df[2].SoldPrice
    /\ filtered_df = get_filtered_data(df, selected_categories, keyword, None)

-----------------------------------------------------------------------------
(* Properties of the script of lynch_dashboard.py *)

\* the summary block of lynch_dashboard.py has been run
LynchSummaryOver == pc \in {"lynch_stats", "lynch_stats_raised"}

\* C22: in lynch_dashboard, when the filter selection matches no item (after
\* Clear All, or with a keyword no title contains), the summary-statistics
\* block completes without raising and a defined no-results state is rendered.
C22_LynchNoResults ==
    LynchSummaryOver /\ filtered_df = <<>> =>
        /\ pc = "lynch_stats"
        /\ "summary_block" \in shown

\* display_filter_info has been called in this run
FilterInfoCalled == pc = "done" /\ filtered_df # <<>>

\* a category of the table is unselected or a keyword is given
FilterActive ==
    Len(selected_categories) < Len(categories(df)) \/ keyword # <<>>

\* C23: display_filter_info shows the "Active Filters" box exactly when a
\* filter is active (a category present in the table is unselected or the
\* keyword is non-empty) and hides it when every category present is selected
\* and the keyword is empty, whatever the number of categories present.
C23_ActiveFiltersBox ==
    FilterInfoCalled => ("active_filters" \in shown <=> FilterActive)

-----------------------------------------------------------------------------
(* The "Filters active" notice *)

\* the filter spec a run of create_sidebar_filters produced is restrictive:
\* the slider is off the full range, the keyword is not empty, or a category
\* is unchecked
Restrictive ==
    \/ slider_state # <<MinSold(df), MaxSold(df)>>
    \/ keyword # <<>>
    \/ Len(selected_categories) < Len(categories(df))

\* C25: in every run of create_sidebar_filters the "Filters active" notice is
\* displayed if and only if the filter spec produced by that same run is
\* restrictive.
C25_NoticeOfThisRun ==
    pc = "sidebar" => ("filters_active" \in shown <=> Restrictive)

-----------------------------------------------------------------------------
(* The stored price filter *)

\* C26: after every completed run of create_sidebar_filters
\* session_state.price_filter is None exactly when the slider is at (minimum,
\* maximum) Sold Price of the whole table, and otherwise it is the range
\* (lo, hi) of the slider with min <= lo <= hi <= max; the price filter
\* main_dashboard passes to get_filtered_data is the one stored in that run.
C26_PriceFilterOfThisRun ==
    /\ SidebarDone =>
          LET stored == session_state["price_filter"]
          IN  /\ stored = None <=> slider_state = FullRange
              /\ stored # None =>
                    /\ stored = slider_state
                    /\ MinSold(df) <= stored[1]
                    /\ stored[1] <= stored[2]
                    /\ stored[2] <= MaxSold(df)
    /\ SidebarDone /\ pc # "sidebar" => price_filter = session_state["price_filter"]

\* a rerun with the slider narrowed has handed its range to get_filtered_data
C26_Witness ==
    /\ pc = "applied"
    /\ slider_state # FullRange
    /\ session_state["price_filter"] = slider_state
    /\ price_filter = slider_state

-----------------------------------------------------------------------------
(* The Select All and Clear All buttons *)

-----------------------------------------------------------------------------
(* The search box and its Clear button *)

\* st.session_state.get('search_clear_counter', 0)
ClearCounter == Get(session_state, "search_clear_counter", 0)

\* the text in the search box the run rendered
SearchBoxText == {text_states[id] : id \in DOMAIN text_states}

\* the steps of search_clear_counter: it never decreases, it changes only in
\* the handler of a Clear click, and there by exactly 1
ClearCounterStep ==
    /\ ClearCounter' >= ClearCounter
    /\ pc = "loaded" /\ event = "clear" => ClearCounter' = ClearCounter + 1
    /\ ClearCounter' # ClearCounter => pc = "loaded" /\ event = "clear"

\* C27: the rerun a click on the search "Clear" button triggers returns an
\* empty keyword from create_sidebar_filters whatever was typed before,
\* search_clear_counter has increased by exactly 1 and never decreases, and
\* in every run without a Clear click the returned keyword is the text in
\* the search box.
C27_ClearSearch ==
    /\ [](SidebarDone =>
            /\ event = "after_clear" => keyword = <<>>
            /\ SearchBoxText = {keyword}
            /\ session_state["search_keyword"] = keyword)
    /\ [][ClearCounterStep]_vars

\* the second Clear click of a session has been handled and its rerun has
\* returned from create_sidebar_filters
C27_Witness ==
    /\ pc = "sidebar"
    /\ event = "after_clear"
    /\ ClearCounter = 2
    /\ keyword = <<>>

-----------------------------------------------------------------------------
(* The manifest of the download script *)

\* the entries of the items whose try block ended at its last statement, in
\* the order of the attempts
RECURSIVE Succeeded(_)
Succeeded(tried) ==
    IF tried = <<>> THEN <<>>
    ELSE LET rest == Succeeded(SubSeq(tried, 1, Len(tried) - 1))
         IN  IF Last(tried).result = "ok"
             THEN Append(rest, ManifestEntry(data[Last(tried).idx]))
             ELSE rest

\* C30: a failure while fetching or saving one item's image does not stop
\* the loop, every later item is still attempted; when the loop ends the
\* manifest holds exactly one entry for each item whose download succeeded
\* and none for a failed one, in input order, and it is written once, after
\* the last item.
C30_ManifestOfSuccesses ==
    /\ \A k \in 1..Len(attempts) : attempts[k].idx = k
    /\ manifest = Succeeded(attempts)
    /\ pc = "download_raised" => ~Has(data[NextIdx], "Item Image")
    /\ pc = "download_done" => Len(attempts) = Len(data) /\ dumps = <<manifest>>
    /\ pc # "download_done" => dumps = <<>>

\* three items, the second failed and the third was downloaded after it
C30_Witness ==
    /\ pc = "download_done"
    /\ Len(attempts) = 3
    /\ attempts[1].result = "ok"
    /\ attempts[2].result # "ok"
    /\ attempts[3].result = "ok"
    /\ Len(manifest) = 2
    /\ dumps = <<manifest>>

-----------------------------------------------------------------------------
(* The memoised calls *)

\* the table a parse of the source array gives
FreshParse == [k \in 1..Len(titles) |-> Row(k)]

\* the orders in which the categories of cats can be listed
Reordered(cats) ==
    {list \in [1..Len(cats) -> Elements(cats)] : Elements(list) = Elements(cats)}

\* C21: memoization is transparent: over every sequence of cached calls the
\* table the cached load_data returns is the fresh parse of the source, the
\* frame and the statistics the cached get_filtered_data and
\* calculate_summary_stats return in a run are the ones computed from scratch
\* for the filter spec of that run, never those of an earlier, different
\* spec, and the same categories listed in another order give the same frame.
C21_MemoizationTransparent ==
    /\ pc \in {"loaded", "filter_hit", "filter_miss", "cached_stats"} =>
          df = FreshParse
    /\ pc \in {"filter_hit", "filter_miss", "cached_stats"} =>
          /\ filtered_df = get_filtered_data(df, selected_categories, keyword,
                                             price_filter)
          /\ \A list \in Reordered(selected_categories) :
                /\ get_filtered_data(df, list, keyword, price_filter) = filtered_df
                /\ FilterKey(df, list, keyword, price_filter) \in DOMAIN filter_cache =>
                      filter_cache[FilterKey(df, list, keyword, price_filter)]
                          = filtered_df
    /\ pc = "cached_stats" => stats \in calculate_summary_stats(filtered_df)

\* a later run called with a spec of an earlier run and got its frame from
\* the cache, which also holds a different frame of another spec and the
\* same selection in the other order
C21_Witness ==
    /\ pc = "filter_hit"
    /\ filtered_df # <<>>
    /\ \E key \in DOMAIN filter_cache : filter_cache[key] # filtered_df
    /\ \E list \in Reordered(selected_categories) :
          /\ list # selected_categories
          /\ FilterKey(df, list, keyword, price_filter) \in DOMAIN filter_cache
====
